---- MODULE Spec2Model ----
(***************************************************************************)
(* Model of the lodash-style utility library `_` (function combinators    *)
(* memoize, throttle, debounce, curry and the type-guarded helpers).       *)
(***************************************************************************)
EXTENDS Integers, Sequences, FiniteSets, TLC

(***************************************************************************)
(* JavaScript values.  Every value is a record with the same fields so     *)
(* that values of different types can be compared:                         *)
(*   t  the result of `typeof`, except "null" (typeof null is "object"),   *)
(*      "array" (typeof [] is "object") and "NaN" (typeof NaN is           *)
(*      "number"), which the guards of the helpers tell apart              *)
(*   n, d  the number n / d in lowest terms (numbers), 1 for true          *)
(*   s  the characters (strings)                                           *)
(*   a  the elements, themselves values (arrays)                           *)
(*   o  the properties in insertion order, each with its key, its value    *)
(*      and whether it is an own property or an inherited one (objects)    *)
(***************************************************************************)
Js(type, num, den, chars, elems, props) ==
    [t |-> type, n |-> num, d |-> den, s |-> chars, a |-> elems, o |-> props]

JsUndefined == Js("undefined", 0, 1, <<>>, <<>>, <<>>)

JsNull == Js("null", 0, 1, <<>>, <<>>, <<>>)

JsNaN == Js("NaN", 0, 1, <<>>, <<>>, <<>>)

JsNum(k) == Js("number", k, 1, <<>>, <<>>, <<>>)

JsBool(b) == Js("boolean", IF b THEN 1 ELSE 0, 1, <<>>, <<>>, <<>>)

JsStr(chars) == Js("string", 0, 1, chars, <<>>, <<>>)

JsArr(elems) == Js("array", 0, 1, <<>>, elems, <<>>)

JsObj(props) == Js("object", 0, 1, <<>>, <<>>, props)

\* an exception leaving the function instead of a value
Throw == Js("throw", 0, 1, <<>>, <<>>, <<>>)

\* typeof v
TypeOf(v) ==
    CASE v.t = "null" -> "object"
      [] v.t = "array" -> "object"
      [] v.t = "NaN" -> "number"
      [] OTHER -> v.t

RECURSIVE JoinChars(_)
\* chars.join('') : the string made of a sequence of characters
JoinChars(chars) ==
    IF chars = <<>> THEN "" ELSE Head(chars) \o JoinChars(Tail(chars))

(***************************************************************************)
(* _.memoize                                                               *)
(***************************************************************************)
MaxMemoArgs == 1

MaxMemoCalls == 3

\* the values a caller passes to a memoized wrapper
MemoValues == {JsUndefined, JsNull, JsNaN, JsNum(1), JsStr(<<"1">>)}

MemoArgLists == UNION {[1..k -> MemoValues] : k \in 0..MaxMemoArgs}

\* JSON.stringify of one element of an array: undefined and NaN serialize
\* as null, a number as its digits, a string between double quotes
JsonElement(v) ==
    CASE v.t = "undefined" -> "null"
      [] v.t = "null" -> "null"
      [] v.t = "NaN" -> "null"
      [] v.t = "number" -> ToString(v.n)
      [] v.t = "boolean" -> IF v.n = 1 THEN "true" ELSE "false"
      [] v.t = "string" -> "\"" \o JoinChars(v.s) \o "\""

RECURSIVE JsonElements(_)
JsonElements(args) ==
    IF args = <<>> THEN ""
    ELSE IF Len(args) = 1 THEN JsonElement(args[1])
    ELSE JsonElement(args[1]) \o "," \o JsonElements(Tail(args))

\* const key = JSON.stringify(args)
JSONStringify(args) == "[" \o JsonElements(args) \o "]"

\* the functions handed to memoize: pure, the third one throwing a
\* TypeError on undefined and null
MemoFns == {"typeOf", "count", "len"}

\* fn.apply(this, args) for the function named f
ApplyFn(f, args) ==
    LET x == IF Len(args) >= 1 THEN args[1] ELSE JsUndefined IN
    CASE f = "typeOf" -> JsStr(<<TypeOf(x)>>)
      [] f = "count" -> JsNum(Len(args))
      [] f = "len" -> IF x.t \in {"undefined", "null"} THEN Throw
                      ELSE IF x.t = "string" THEN JsNum(Len(x.s))
                      ELSE JsUndefined

VARIABLES memoFn, cache, origin, fnCalls, wCalls, memoLast

memoVars == <<memoFn, cache, origin, fnCalls, wCalls, memoLast>>

NoCall == [args |-> <<>>, key |-> "", hit |-> FALSE, result |-> JsUndefined,
           from |-> <<>>, n |-> 0]

\* const cache = new Map()
InitMemo ==
    /\ memoFn \in MemoFns
    /\ cache = [k \in {} |-> JsUndefined]
    /\ origin = [k \in {} |-> <<>>]
    /\ fnCalls = [a \in MemoArgLists |-> 0]
    /\ wCalls = [a \in MemoArgLists |-> 0]
    /\ memoLast = NoCall

IdleMemo ==
    /\ memoFn = "none"
    /\ cache = [k \in {} |-> JsUndefined]
    /\ origin = [k \in {} |-> <<>>]
    /\ fnCalls = [a \in {} |-> 0]
    /\ wCalls = [a \in {} |-> 0]
    /\ memoLast = NoCall

\* cache.has(key)
CacheHas(c, key) == key \in DOMAIN c

\* a cache that keeps only the latest entry
CacheSetEvict(c, key, result) == [k \in {key} |-> result]

\* cache.set(key, result)
CacheSet(c, key, result) ==
    [k \in DOMAIN c \cup {key} |-> IF k = key THEN result ELSE c[k]]

\* the wrapper returned by memoize, called with args
MemoCall(args) ==
    LET key == JSONStringify(args) IN
    /\ memoLast.n < MaxMemoCalls
    /\ IF CacheHas(cache, key)
       THEN \* return cache.get(key)
            /\ memoLast' = [args |-> args, key |-> key, hit |-> TRUE,
                            result |-> cache[key], from |-> origin[key],
                            n |-> memoLast.n + 1]
            /\ wCalls' = [wCalls EXCEPT ![args] = @ + 1]
            /\ UNCHANGED <<cache, origin, fnCalls>>
       ELSE LET result == ApplyFn(memoFn, args) IN
            /\ fnCalls' = [fnCalls EXCEPT ![args] = @ + 1]
            /\ IF result = Throw
               THEN \* the exception leaves the wrapper before cache.set
                    /\ memoLast' = [args |-> args, key |-> key, hit |-> FALSE,
                                    result |-> Throw, from |-> args,
                                    n |-> memoLast.n + 1]
                    /\ UNCHANGED <<cache, origin, wCalls>>
               ELSE /\ cache' = CacheSet(cache, key, result)
                    /\ origin' = CacheSet(origin, key, args)
                    /\ wCalls' = [wCalls EXCEPT ![args] = @ + 1]
                    /\ memoLast' = [args |-> args, key |-> key, hit |-> FALSE,
                                    result |-> result, from |-> args,
                                    n |-> memoLast.n + 1]
    /\ UNCHANGED memoFn

Memoized == \E args \in MemoArgLists : MemoCall(args)

(***************************************************************************)
(* Clock and timers (Date.now, setTimeout, clearTimeout)                   *)
(***************************************************************************)
MaxTime == 6

MaxWait == 2

\* the argument lists passed to a throttled or debounced wrapper
CallArgs == {"a", "b"}

\* func.apply(this, args) of the wrapped function
FuncResult(args) == "f(" \o args \o ")"

VARIABLES now, timers, nextTimer

clockVars == <<now, timers, nextTimer>>

InitClock(start) ==
    /\ now \in start
    /\ timers = {}
    /\ nextTimer = 1

\* setTimeout(cb, wait): a new timer, due wait ms from now; the callback is
\* kept as the arguments it captured and the index of the call that armed it
SetTimeout(ts, id, due, args, src) ==
    ts \cup {[id |-> id, due |-> due, args |-> args, src |-> src]}

\* a clearTimeout that cancels nothing
ClearTimeoutNoop(ts, handle) == ts

\* clearTimeout(handle): undefined (0) and fired handles are ignored
ClearTimeout(ts, handle) == {tm \in ts : tm.id # handle}

\* an expired timer runs before the clock moves on
Due(ts) == {tm \in ts : tm.due <= now}

Tick ==
    /\ now < MaxTime
    /\ Due(timers) = {}
    /\ now' = now + 1
    /\ UNCHANGED <<timers, nextTimer>>

(***************************************************************************)
(* _.debounce                                                              *)
(***************************************************************************)
MaxDebounceCalls == 3

VARIABLES dWait, timeout, dLog

debounceVars == <<dWait, timeout, dLog>>

\* let timeout;
InitDebounce ==
    /\ dWait \in 1..MaxWait
    /\ timeout = 0
    /\ dLog = <<>>

IdleDebounce ==
    /\ dWait = 0
    /\ timeout = 0
    /\ dLog = <<>>

CallsIn(log) == {i \in 1..Len(log) : log[i].kind = "call"}

\* a wrapper that ignores the calls made while a timer is pending
RearmKeepPending(ts, handle, id, due, args, src) ==
    IF \E tm \in ts : tm.id = handle THEN ts
    ELSE SetTimeout(ts, id, due, args, src)

\* clearTimeout(timeout); timeout = setTimeout(() => func.apply(this, args), wait)
Rearm(ts, handle, id, due, args, src) ==
    SetTimeout(ClearTimeout(ts, handle), id, due, args, src)

\* the wrapper returned by debounce, called with args
DebounceCall(args) ==
    /\ Cardinality(CallsIn(dLog)) < MaxDebounceCalls
    /\ timers' = Rearm(timers, timeout, nextTimer, now + dWait, args,
                       Len(dLog) + 1)
    /\ timeout' = nextTimer
    /\ nextTimer' = nextTimer + 1
    /\ dLog' = Append(dLog, [kind |-> "call", t |-> now, args |-> args,
                             src |-> Len(dLog) + 1])
    /\ UNCHANGED <<now, dWait>>

Debounced == \E args \in CallArgs : DebounceCall(args)

\* the timer callback () => func.apply(this, args)
DebounceFire ==
    \E tm \in Due(timers) :
        /\ \A other \in Due(timers) : tm.due <= other.due
        /\ timers' = timers \ {tm}
        /\ dLog' = Append(dLog, [kind |-> "fire", t |-> now, args |-> tm.args,
                                 src |-> tm.src])
        /\ UNCHANGED <<now, nextTimer, dWait, timeout>>

(***************************************************************************)
(* _.throttle                                                              *)
(***************************************************************************)
MaxThrottleCalls == 4

VARIABLES tWait, lastCall, tLog

throttleVars == <<tWait, lastCall, tLog>>

\* let lastCall = 0;
InitThrottle ==
    /\ tWait \in 0..MaxWait
    /\ lastCall = 0
    /\ tLog = <<>>

IdleThrottle ==
    /\ tWait = 0
    /\ lastCall = 0
    /\ tLog = <<>>

\* the window compared with > instead of >=
ThrottleOpenStrict(n, last, wait) == n - last > wait

\* if (now - lastCall >= wait)
ThrottleOpen(n, last, wait) == n - last >= wait

\* the wrapper returned by throttle, called with args
ThrottleCall(args) ==
    /\ Len(tLog) < MaxThrottleCalls
    /\ IF ThrottleOpen(now, lastCall, tWait)
       THEN /\ lastCall' = now
            /\ tLog' = Append(tLog, [t |-> now, args |-> args, ran |-> TRUE,
                                     ret |-> FuncResult(args)])
       ELSE /\ lastCall' = lastCall
            /\ tLog' = Append(tLog, [t |-> now, args |-> args, ran |-> FALSE,
                                     ret |-> "undefined"])
    /\ UNCHANGED <<now, timers, nextTimer, tWait>>

Throttled == \E args \in CallArgs : ThrottleCall(args)

(***************************************************************************)
(* _.curry                                                                 *)
(***************************************************************************)
MaxArity == 3

MaxGroup == 3

MaxCurryCalls == 3

\* the values passed as arguments to a curried function
CurryValues == {1, 2}

\* the argument groups of one call: f(), f(x), f(x, y), ...
CurryGroups == UNION {[1..k -> CurryValues] : k \in 0..MaxGroup}

RECURSIVE Flatten(_)
\* the arguments of a chain of calls, in the order they were supplied
Flatten(groups) ==
    IF groups = <<>> THEN <<>> ELSE Head(groups) \o Flatten(Tail(groups))

VARIABLES arity, wrappers, results, curryCalls

curryVars == <<arity, wrappers, results, curryCalls>>

\* fn.apply(this, args): fn returns the list of its declared parameters, so
\* its result tells which arguments it received and in which order
CurryFn(n, args) == SubSeq(args, 1, n)

\* const arity = fn.length; wrapper 0 is `curried`, which captures nothing
InitCurry ==
    /\ arity \in 1..MaxArity
    /\ wrappers = [h \in {0} |-> [args |-> <<>>, chain |-> <<>>, fired |-> 0]]
    /\ results = {}
    /\ curryCalls = 0

IdleCurry ==
    /\ arity = 0
    /\ wrappers = [h \in {} |-> [args |-> <<>>, chain |-> <<>>, fired |-> 0]]
    /\ results = {}
    /\ curryCalls = 0

\* the arity test with > instead of >=
CurryReadyStrict(args, n) == Len(args) > n

\* if (args.length >= arity)
CurryReady(args, n) == Len(args) >= n

\* args.concat(moreArgs) returns a new array
Concat(args, moreArgs) == args \o moreArgs

\* the captured array after args.push(...moreArgs), which grows it in place
AfterPush(args, moreArgs) == args \o moreArgs

\* the captured array after args.concat(moreArgs): concat leaves it alone
AfterConcat(args, moreArgs) == args

\* wrapper h called with the group moreArgs:
\* curried.apply(this, args.concat(moreArgs))
CurryCall(h, moreArgs) ==
    LET w == wrappers[h]
        all == Concat(w.args, moreArgs)
        chain == Append(w.chain, moreArgs)
        kept == [wrappers EXCEPT ![h].args = AfterConcat(w.args, moreArgs)]
        id == Cardinality(DOMAIN wrappers)
    IN
    /\ curryCalls < MaxCurryCalls
    /\ curryCalls' = curryCalls + 1
    /\ IF CurryReady(all, arity)
       THEN \* return fn.apply(this, args)
            /\ results' = results \cup
                   {[via |-> h, chain |-> chain, passed |-> all,
                     result |-> CurryFn(arity, all), runs |-> w.fired + 1]}
            /\ wrappers' = kept
       ELSE \* return function(...moreArgs) { ... }
            /\ wrappers' = [k \in DOMAIN wrappers \cup {id} |->
                               IF k = id
                               THEN [args |-> all, chain |-> chain,
                                     fired |-> w.fired]
                               ELSE kept[k]]
            /\ UNCHANGED results
    /\ UNCHANGED arity

Curried == \E h \in DOMAIN wrappers : \E g \in CurryGroups : CurryCall(h, g)

(***************************************************************************)
(* The type-guarded helpers of `_`                                         *)
(***************************************************************************)
MaxStr == 3

MaxArr == 3

MaxLength == 4

\* the characters of the strings: a lower-case letter, an upper-case
\* letter, a digit, a blank and a punctuation mark
Chars == {"a", "B", "1", " ", "-"}

\* String.prototype.toLowerCase, one character
ToLowerChar(c) == IF c = "B" THEN "b" ELSE IF c = "A" THEN "a" ELSE c

\* String.prototype.toUpperCase, one character
ToUpperChar(c) == IF c = "a" THEN "A" ELSE IF c = "b" THEN "B" ELSE c

ToLowerCase(chars) == [i \in 1..Len(chars) |-> ToLowerChar(chars[i])]

ToUpperCase(chars) == [i \in 1..Len(chars) |-> ToUpperChar(chars[i])]

\* the character classes [a-z], [A-Z], [a-z0-9] and \s
IsLower(c) == c \in {"a", "b"}

IsUpper(c) == c \in {"A", "B"}

IsAlnum(c) == c \in {"a", "b", "1"}

IsSpace(c) == c = " "

Min(x, y) == IF x <= y THEN x ELSE y

Max(x, y) == IF x >= y THEN x ELSE y

\* slice(begin, end) of a string or an array: a negative index counts from
\* the end, and both indices are clipped to the length
Slice(seq, begin, end) ==
    LET len == Len(seq)
        from == IF begin < 0 THEN Max(len + begin, 0) ELSE Min(begin, len)
        to == IF end < 0 THEN Max(len + end, 0) ELSE Min(end, len)
    IN SubSeq(seq, from + 1, to)

\* Array.isArray(v)
IsArray(v) == v.t = "array"

\* obj === null || typeof obj !== 'object'
NotObject(v) == v.t = "null" \/ TypeOf(v) # "object"

\* !v for the values of the model
Falsy(v) ==
    \/ v.t \in {"undefined", "null", "NaN"}
    \/ v.t = "number" /\ v.n = 0
    \/ v.t = "boolean" /\ v.n = 0
    \/ v.t = "string" /\ v.s = <<>>

\* capitalize without its guard: str[0] of a value that is no non-empty
\* string is undefined (or the access itself fails), so the call throws
capitalizeUnguarded(str) ==
    IF str.t = "string" /\ str.s # <<>>
    THEN JsStr(<<ToUpperChar(str.s[1])>> \o ToLowerCase(Slice(str.s, 1, Len(str.s))))
    ELSE Throw

\* _.capitalize
capitalize(str) ==
    IF TypeOf(str) # "string" \/ Falsy(str) THEN JsStr(<<>>)
    ELSE JsStr(<<ToUpperChar(str.s[1])>> \o ToLowerCase(Slice(str.s, 1, Len(str.s))))

\* the defaults of truncate: length = 30, suffix = '...'
DefaultLength == 30

DefaultSuffix == <<".", ".", ".">>

\* _.truncate
truncate(str, length, suffix) ==
    IF TypeOf(str) # "string" THEN JsStr(<<>>)
    ELSE IF Len(str.s) <= length THEN str
    ELSE JsStr(Slice(str.s, 0, length - Len(suffix)) \o suffix)

RECURSIVE HyphenateCamel(_)
\* replace(/([a-z])([A-Z])/g, '$1-$2')
HyphenateCamel(chars) ==
    IF Len(chars) < 2 THEN chars
    ELSE IF IsLower(chars[1]) /\ IsUpper(chars[2])
         THEN <<chars[1], "-", chars[2]>> \o HyphenateCamel(Slice(chars, 2, Len(chars)))
         ELSE <<chars[1]>> \o HyphenateCamel(Tail(chars))

RECURSIVE HyphenateSpaces(_)
\* replace(/\s+/g, '-')
HyphenateSpaces(chars) ==
    IF chars = <<>> THEN <<>>
    ELSE IF IsSpace(chars[1])
         THEN IF Len(chars) >= 2 /\ IsSpace(chars[2])
              THEN HyphenateSpaces(Tail(chars))
              ELSE <<"-">> \o HyphenateSpaces(Tail(chars))
         ELSE <<chars[1]>> \o HyphenateSpaces(Tail(chars))

\* _.kebabCase
kebabCase(str) ==
    IF TypeOf(str) # "string" THEN JsStr(<<>>)
    ELSE JsStr(ToLowerCase(HyphenateSpaces(HyphenateCamel(str.s))))

\* split('').reverse()
Reverse(seq) == [i \in 1..Len(seq) |-> seq[Len(seq) + 1 - i]]

\* replace(/[^a-z0-9]/g, '')
StripNonAlnum(chars) == SelectSeq(chars, IsAlnum)

\* _.isPalindrome
isPalindrome(str) ==
    IF TypeOf(str) # "string" THEN JsBool(FALSE)
    ELSE LET stripped == StripNonAlnum(ToLowerCase(str.s)) IN
         JsBool(stripped = Reverse(stripped))

\* the characters 0-9 and their values
DigitChars == <<"0", "1", "2", "3", "4", "5", "6", "7", "8", "9">>

IsDigit(c) == \E i \in 1..10 : DigitChars[i] = c

DigitValue(c) == (CHOOSE i \in 1..10 : DigitChars[i] = c) - 1

RECURSIVE DigitsValue(_, _)
\* the number written by a sequence of digits, after the value read so far
DigitsValue(chars, sofar) ==
    IF chars = <<>> THEN sofar
    ELSE DigitsValue(Tail(chars), 10 * sofar + DigitValue(Head(chars)))

RECURSIVE TrimStart(_)
TrimStart(chars) ==
    IF chars # <<>> /\ IsSpace(Head(chars)) THEN TrimStart(Tail(chars)) ELSE chars

\* String.prototype.trim
Trim(chars) == Reverse(TrimStart(Reverse(TrimStart(chars))))

\* ToNumber of a string: blanks around it are ignored, the empty string is
\* 0, an optionally signed run of digits is its value, the rest is NaN
StringToNumber(chars) ==
    LET body == Trim(chars)
        negative == body # <<>> /\ Head(body) = "-"
        digits == IF negative THEN Tail(body) ELSE body
    IN
    IF body = <<>> THEN JsNum(0)
    ELSE IF digits # <<>> /\ \A i \in 1..Len(digits) : IsDigit(digits[i])
         THEN JsNum(IF negative THEN 0 - DigitsValue(digits, 0)
                    ELSE DigitsValue(digits, 0))
         ELSE JsNaN

\* ToNumber, the conversion Math.max and Math.min apply to their arguments;
\* an array converts through its join(','), an object is NaN
ToNumber(v) ==
    CASE v.t = "number" -> v
      [] v.t = "boolean" -> JsNum(v.n)
      [] v.t = "null" -> JsNum(0)
      [] v.t = "string" -> StringToNumber(v.s)
      [] v.t = "array" ->
            IF v.a = <<>> THEN JsNum(0)
            ELSE IF Len(v.a) = 1 /\ v.a[1].t = "number" THEN v.a[1]
            ELSE JsNaN
      [] OTHER -> JsNaN

\* x <= y for two numbers n / d
NumLE(x, y) == x.n * y.d <= y.n * x.d

\* Math.max(x, y): NaN if either converts to NaN
MathMax(x, y) ==
    LET p == ToNumber(x)
        q == ToNumber(y)
    IN IF p.t = "NaN" \/ q.t = "NaN" THEN JsNaN
       ELSE IF NumLE(p, q) THEN q ELSE p

\* Math.min(x, y): NaN if either converts to NaN
MathMin(x, y) ==
    LET p == ToNumber(x)
        q == ToNumber(y)
    IN IF p.t = "NaN" \/ q.t = "NaN" THEN JsNaN
       ELSE IF NumLE(p, q) THEN p ELSE q

\* the two bounds applied the wrong way round
clampSwapped(num, lower, upper) == MathMax(MathMin(num, lower), upper)

\* _.clamp
clamp(num, lower, upper) == MathMin(MathMax(num, lower), upper)

RECURSIVE Gcd(_, _)
Gcd(x, y) == IF y = 0 THEN x ELSE Gcd(y, x % y)

\* the number p / q, q > 0, p >= 0
JsQuotient(p, q) ==
    LET g == Gcd(p, q) IN Js("number", p \div g, q \div g, <<>>, <<>>, <<>>)

RECURSIVE SumOf(_)
\* nums.reduce((sum, n) => sum + n, 0) over integers
SumOf(nums) == IF nums = <<>> THEN 0 ELSE nums[1].n + SumOf(Tail(nums))

\* _.mean; a NaN among the numbers makes the sum NaN
mean(nums) ==
    IF ~IsArray(nums) \/ Len(nums.a) = 0 THEN JsNaN
    ELSE IF \E i \in 1..Len(nums.a) : nums.a[i].t = "NaN" THEN JsNaN
    ELSE JsQuotient(SumOf(nums.a), Len(nums.a))

\* _.last
last(arr) ==
    IF ~IsArray(arr) \/ Len(arr.a) = 0 THEN JsUndefined
    ELSE arr.a[Len(arr.a)]

\* Array.prototype.includes (SameValueZero: NaN is found)
ArrayIncludes(elems, value) == \E i \in 1..Len(elems) : elems[i] = value

\* _.includes
includes(arr, value) ==
    IF ~IsArray(arr) THEN JsBool(FALSE)
    ELSE JsBool(ArrayIncludes(arr.a, value))

\* _.without
without(arr, excluded) ==
    IF ~IsArray(arr) THEN JsArr(<<>>)
    ELSE LET Kept(item) == ~ArrayIncludes(excluded, item) IN
         JsArr(SelectSeq(arr.a, Kept))

\* the outcome of a call whose loop never ends
Diverges == Js("diverges", 0, 1, <<>>, <<>>, <<>>)

RECURSIVE ChunkFromDropTail(_, _, _)
\* a loop that stops at the last full chunk: i + size <= arr.length
ChunkFromDropTail(elems, i, size) ==
    IF i + size <= Len(elems)
    THEN <<JsArr(Slice(elems, i, i + size))>>
             \o ChunkFromDropTail(elems, i + size, size)
    ELSE <<>>

RECURSIVE ChunkFrom(_, _, _)
\* for (let i = 0; i < arr.length; i += size) result.push(arr.slice(i, i + size))
ChunkFrom(elems, i, size) ==
    IF i < Len(elems)
    THEN <<JsArr(Slice(elems, i, i + size))>> \o ChunkFrom(elems, i + size, size)
    ELSE <<>>

\* _.chunk; with size <= 0 the index never passes the end of a non-empty
\* array
chunk(arr, size) ==
    IF ~IsArray(arr) THEN JsArr(<<>>)
    ELSE IF size <= 0 /\ Len(arr.a) > 0 THEN Diverges
    ELSE JsArr(ChunkFrom(arr.a, 0, size))

RECURSIVE SetOrderLast(_, _)
\* a value is kept where it occurs last
SetOrderLast(elems, seen) ==
    IF elems = <<>> THEN seen
    ELSE IF ArrayIncludes(Tail(elems), elems[1]) THEN SetOrderLast(Tail(elems), seen)
    ELSE SetOrderLast(Tail(elems), Append(seen, elems[1]))

RECURSIVE SetOrder(_, _)
\* [...new Set(arr)]: the values in the order of their first insertion
SetOrder(elems, seen) ==
    IF elems = <<>> THEN seen
    ELSE IF ArrayIncludes(seen, elems[1]) THEN SetOrder(Tail(elems), seen)
    ELSE SetOrder(Tail(elems), Append(seen, elems[1]))

\* _.unique
unique(arr) ==
    IF ~IsArray(arr) THEN JsArr(<<>>)
    ELSE JsArr(SetOrder(arr.a, <<>>))

\* the properties of an object; those of an array are its indices
PropsOf(obj) ==
    IF IsArray(obj)
    THEN [i \in 1..Len(obj.a) |->
             [k |-> <<ToString(i - 1)>>, v |-> obj.a[i], own |-> TRUE]]
    ELSE obj.o

IsOwn(prop) == prop.own

\* the own enumerable properties, as Object.keys and Object.values list them
OwnProps(obj) == SelectSeq(PropsOf(obj), IsOwn)

\* _.keys
keys(obj) ==
    IF NotObject(obj) THEN JsArr(<<>>)
    ELSE JsArr([i \in 1..Len(OwnProps(obj)) |-> JsStr(OwnProps(obj)[i].k)])

\* _.values
values(obj) ==
    IF NotObject(obj) THEN JsArr(<<>>)
    ELSE JsArr([i \in 1..Len(OwnProps(obj)) |-> OwnProps(obj)[i].v])

\* key in obj: own or inherited
HasProp(props, key) == \E i \in 1..Len(props) : props[i].k = key

\* obj[key]
GetProp(props, key) ==
    props[CHOOSE i \in 1..Len(props) : props[i].k = key].v

\* result[key] = value on a plain object
PutProp(props, key, value) ==
    IF HasProp(props, key)
    THEN [i \in 1..Len(props) |->
             IF props[i].k = key THEN [props[i] EXCEPT !.v = value] ELSE props[i]]
    ELSE Append(props, [k |-> key, v |-> value, own |-> TRUE])

RECURSIVE PickInto(_, _, _)
\* keys.reduce((result, key) => { if (key in obj) result[key] = obj[key] }, {})
PickInto(result, props, wanted) ==
    IF wanted = <<>> THEN result
    ELSE IF HasProp(props, wanted[1])
         THEN PickInto(PutProp(result, wanted[1], GetProp(props, wanted[1])),
                       props, Tail(wanted))
         ELSE PickInto(result, props, Tail(wanted))

\* _.pick
pick(obj, wanted) ==
    IF NotObject(obj) THEN JsObj(<<>>)
    ELSE JsObj(PickInto(<<>>, PropsOf(obj), wanted))

\* _.omit
omit(obj, unwanted) ==
    IF NotObject(obj) THEN JsObj(<<>>)
    ELSE LET Kept(prop) == \A i \in 1..Len(unwanted) : unwanted[i] # prop.k IN
         JsObj(SelectSeq(OwnProps(obj), Kept))

\* the values handed to the helpers
Strings == UNION {[1..k -> Chars] : k \in 0..MaxStr}

Elements == {JsNum(1), JsNum(2), JsNaN}

Arrays == UNION {[1..k -> Elements] : k \in 0..MaxArr}

Keys == {<<"a">>, <<"b">>}

KeyLists == UNION {[1..k -> Keys] : k \in 0..2}

Objects ==
    {<<>>,
     <<[k |-> <<"a">>, v |-> JsNum(1), own |-> TRUE]>>,
     <<[k |-> <<"a">>, v |-> JsNum(1), own |-> TRUE],
       [k |-> <<"b">>, v |-> JsNum(2), own |-> TRUE]>>,
     <<[k |-> <<"a">>, v |-> JsNum(1), own |-> TRUE],
       [k |-> <<"b">>, v |-> JsNum(2), own |-> FALSE]>>}

Inputs ==
    {JsUndefined, JsNull, JsNaN, JsNum(0), JsNum(1), JsBool(FALSE), JsBool(TRUE)}
        \cup {JsStr(chars) : chars \in Strings}
        \cup {JsArr(elems) : elems \in Arrays}
        \cup {JsObj(props) : props \in Objects}

Suffixes == {<<>>, <<"-">>, DefaultSuffix}

Lengths == 0..MaxLength \cup {DefaultLength}

VARIABLE call

helperVars == <<call>>

\* a call about to be made, with its first argument
InitHelpers ==
    \E v \in Inputs : call = [fn |-> "", args |-> <<v>>, ret |-> JsUndefined]

IdleHelpers == call = [fn |-> "", args |-> <<>>, ret |-> JsUndefined]

\* the call of helper name returns ret
Returned(name, args, ret) ==
    /\ call.fn = ""
    /\ call' = [fn |-> name, args |-> args, ret |-> ret]

Capitalize ==
    LET v == call.args[1] IN Returned("capitalize", <<v>>, capitalize(v))

Truncate ==
    LET v == call.args[1] IN
    \E length \in Lengths : \E suffix \in Suffixes :
        Returned("truncate", <<v, JsNum(length), JsStr(suffix)>>,
                 truncate(v, length, suffix))

KebabCase ==
    LET v == call.args[1] IN Returned("kebabCase", <<v>>, kebabCase(v))

IsPalindrome ==
    LET v == call.args[1] IN Returned("isPalindrome", <<v>>, isPalindrome(v))

Mean == LET v == call.args[1] IN Returned("mean", <<v>>, mean(v))

Last == LET v == call.args[1] IN Returned("last", <<v>>, last(v))

Includes ==
    LET v == call.args[1] IN
    \E value \in Elements :
        Returned("includes", <<v, value>>, includes(v, value))

Without ==
    LET v == call.args[1] IN
    \E excluded \in UNION {[1..k -> Elements] : k \in 0..2} :
        Returned("without", <<v>> \o excluded, without(v, excluded))

Chunk ==
    LET v == call.args[1] IN
    \E size \in 0..MaxArr :
        Returned("chunk", <<v, JsNum(size)>>, chunk(v, size))

\* the bounds handed to clamp
ClampBounds == {JsNum(k) : k \in (0 - 1)..MaxArr}

Clamp ==
    LET v == call.args[1] IN
    \E lower \in ClampBounds : \E upper \in ClampBounds :
        Returned("clamp", <<v, lower, upper>>, clamp(v, lower, upper))

Unique == LET v == call.args[1] IN Returned("unique", <<v>>, unique(v))

ObjectKeys == LET v == call.args[1] IN Returned("keys", <<v>>, keys(v))

ObjectValues == LET v == call.args[1] IN Returned("values", <<v>>, values(v))

Pick ==
    LET v == call.args[1] IN
    \E wanted \in KeyLists :
        Returned("pick", <<v>> \o [i \in 1..Len(wanted) |-> JsStr(wanted[i])],
                 pick(v, wanted))

Omit ==
    LET v == call.args[1] IN
    \E unwanted \in KeyLists :
        Returned("omit", <<v>> \o [i \in 1..Len(unwanted) |-> JsStr(unwanted[i])],
                 omit(v, unwanted))

(***************************************************************************)
(* Dates.  A Date holds a time value, NaN for an invalid date; the model    *)
(* keeps time values in whole seconds since 1970-01-01T00:00:00Z.  The      *)
(* fields a Date reports are those of the local time of the environment.    *)
(***************************************************************************)
SecondsPerDay == 86400

JsDate(time) == Js("date", time, 1, <<>>, <<>>, <<>>)

InvalidDate == Js("date", 0, 0, <<>>, <<>>, <<>>)

IsValidDate(date) == date.d = 1

\* the day number, counted from 1970-01-01, of a day of the Gregorian calendar
DaysFromCivil(year, month, day) ==
    LET y == IF month <= 2 THEN year - 1 ELSE year
        era == y \div 400
        yoe == y - era * 400
        mp == IF month > 2 THEN month - 3 ELSE month + 9
        doy == (153 * mp + 2) \div 5 + day - 1
        doe == yoe * 365 + yoe \div 4 - yoe \div 100 + doy
    IN era * 146097 + doe - 719468

\* the year, month (1-12) and day of a day number
CivilFromDays(days) ==
    LET z == days + 719468
        era == z \div 146097
        doe == z - era * 146097
        yoe == (doe - doe \div 1460 + doe \div 36524 - doe \div 146096) \div 365
        doy == doe - (365 * yoe + yoe \div 4 - yoe \div 100)
        mp == (5 * doy + 2) \div 153
        month == IF mp < 10 THEN mp + 3 ELSE mp - 9
    IN [year |-> yoe + era * 400 + (IF month <= 2 THEN 1 ELSE 0),
        month |-> month,
        day |-> doy - (153 * mp + 2) \div 5 + 1]

\* the time value of a UTC date and time
Utc(year, month, day, hours, minutes, seconds) ==
    DaysFromCivil(year, month, day) * SecondsPerDay
        + hours * 3600 + minutes * 60 + seconds

\* the time zones of the environment: the offset from UTC in winter and in
\* summer, and the instants of 2023 between which summer time applies
ZoneUTC == [std |-> 0, dst |-> 0, from |-> 0, to |-> 0]

ZoneNewYork ==
    [std |-> 0 - 18000, dst |-> 0 - 14400,
     from |-> Utc(2023, 3, 12, 7, 0, 0), to |-> Utc(2023, 11, 5, 6, 0, 0)]

\* summer time starts at local midnight and ends at 1:00, back to midnight
ZoneHavana ==
    [std |-> 0 - 18000, dst |-> 0 - 14400,
     from |-> Utc(2023, 3, 12, 5, 0, 0), to |-> Utc(2023, 11, 5, 5, 0, 0)]

Zones == {ZoneUTC, ZoneNewYork, ZoneHavana}

\* the offset of local time at an instant
Offset(time, zone) ==
    IF zone.from <= time /\ time < zone.to THEN zone.dst ELSE zone.std

LocalTime(time, zone) == time + Offset(time, zone)

\* the instant of a local time: the earlier one when the local time occurs
\* twice, the one after the gap when it does not occur
UtcOfLocal(localTime, zone) ==
    LET candidates == {t \in {localTime - zone.std, localTime - zone.dst} :
                           LocalTime(t, zone) = localTime}
    IN IF candidates = {} THEN localTime - zone.std
       ELSE CHOOSE t \in candidates : \A u \in candidates : t <= u

\* getFullYear, getMonth (0-11), getDate, getHours, getMinutes, getSeconds
Fields(date, zone) ==
    LET localTime == LocalTime(date.n, zone)
        civil == CivilFromDays(localTime \div SecondsPerDay)
        inDay == localTime % SecondsPerDay
    IN [year |-> civil.year, month |-> civil.month - 1, day |-> civil.day,
        hours |-> inDay \div 3600, minutes |-> (inDay % 3600) \div 60,
        seconds |-> inDay % 60]

\* new Date(value) for a value that is not a Date: a number is a time value
\* in milliseconds, null converts to 0, undefined and NaN give an invalid date
NewDate(value) ==
    CASE value.t = "date" -> value
      [] value.t = "null" -> JsDate(0)
      [] value.t = "number" /\ value.d = 1 -> JsDate(value.n \div 1000)
      [] OTHER -> InvalidDate

\* date instanceof Date ? date : new Date(date)
AsDate(value) == IF value.t = "date" THEN value ELSE NewDate(value)

\* new Date(year, monthIndex, day): local midnight of that day
LocalMidnight(year, monthIndex, day, zone) ==
    JsDate(UtcOfLocal(DaysFromCivil(year, monthIndex + 1, day) * SecondsPerDay,
                      zone))

\* midnight of the local day of a date
MidnightOf(date, zone) ==
    IF ~IsValidDate(date) THEN InvalidDate
    ELSE LET f == Fields(date, zone) IN
         LocalMidnight(f.year, f.month, f.day, zone)

Abs(k) == IF k < 0 THEN 0 - k ELSE k

\* the difference of the two dates as they are, without going to midnight
daysBetweenInstants(dateA, dateB, zone) ==
    LET a == AsDate(dateA)
        b == AsDate(dateB)
    IN IF ~IsValidDate(a) \/ ~IsValidDate(b) THEN JsNaN
       ELSE JsNum(Abs(a.n - b.n) \div SecondsPerDay)

\* _.daysBetween; diffMs is 1000 * the difference in seconds, so
\* Math.floor(diffMs / (1000 * 60 * 60 * 24)) is the quotient by 86400
daysBetween(dateA, dateB, zone) ==
    LET a == MidnightOf(AsDate(dateA), zone)
        b == MidnightOf(AsDate(dateB), zone)
    IN IF ~IsValidDate(a) \/ ~IsValidDate(b) THEN JsNaN
       ELSE JsNum(Abs(a.n - b.n) \div SecondsPerDay)

RECURSIVE DigitsOf(_)
\* num.toString() of a natural number
DigitsOf(num) ==
    IF num < 10 THEN <<DigitChars[num + 1]>>
    ELSE DigitsOf(num \div 10) \o <<DigitChars[(num % 10) + 1]>>

\* the string of a date field; the fields of an invalid date are NaN
FieldString(valid, num) == IF valid THEN DigitsOf(num) ELSE <<"N", "a", "N">>

\* padStart(2, '0')
PadStart2(chars) ==
    CASE Len(chars) = 0 -> <<"0", "0">>
      [] Len(chars) = 1 -> <<"0">> \o chars
      [] OTHER -> chars

\* the position of the first occurrence of token in chars, 0 if there is none
IndexOf(chars, token) ==
    LET at == {i \in 1..(Len(chars) - Len(token) + 1) :
                   SubSeq(chars, i, i + Len(token) - 1) = token}
    IN IF at = {} THEN 0 ELSE CHOOSE i \in at : \A j \in at : i <= j

\* chars.replace(token, replacement) with a string for token: the first
\* occurrence only
ReplaceFirst(chars, token, replacement) ==
    LET i == IndexOf(chars, token) IN
    IF i = 0 THEN chars
    ELSE SubSeq(chars, 1, i - 1) \o replacement
             \o SubSeq(chars, i + Len(token), Len(chars))

TokenYear == <<"Y", "Y", "Y", "Y">>
TokenMonth == <<"M", "M">>
TokenDay == <<"D", "D">>
TokenHours == <<"H", "H">>
TokenMinutes == <<"m", "m">>
TokenSeconds == <<"s", "s">>

DefaultFormat == TokenYear \o <<"-">> \o TokenMonth \o <<"-">> \o TokenDay

\* _.formatDate
formatDate(date, format, zone) ==
    LET d == AsDate(date)
        ok == IsValidDate(d)
        f == Fields(d, zone)
        pad(num) == PadStart2(FieldString(ok, num))
        r1 == ReplaceFirst(format, TokenYear, FieldString(ok, f.year))
        r2 == ReplaceFirst(r1, TokenMonth, pad(f.month + 1))
        r3 == ReplaceFirst(r2, TokenDay, pad(f.day))
        r4 == ReplaceFirst(r3, TokenHours, pad(f.hours))
        r5 == ReplaceFirst(r4, TokenMinutes, pad(f.minutes))
    IN JsStr(ReplaceFirst(r5, TokenSeconds, pad(f.seconds)))

\* the dates and other values handed to the date helpers
DateInputs ==
    {JsDate(Utc(2023, 7, 1, 3, 59, 59)), JsDate(Utc(2023, 7, 1, 4, 5, 6)),
     JsDate(Utc(2023, 7, 1, 23, 30, 0)), JsDate(Utc(2023, 7, 2, 12, 0, 0)),
     JsDate(Utc(2023, 3, 11, 12, 0, 0)), JsDate(Utc(2023, 3, 12, 5, 30, 0)),
     JsDate(Utc(2023, 3, 13, 3, 0, 0)), JsDate(Utc(2023, 3, 13, 12, 0, 0)),
     JsDate(Utc(2023, 11, 5, 4, 30, 0)), JsDate(Utc(2023, 11, 6, 12, 0, 0)),
     JsNull, JsUndefined}

MaxPieces == 2

FormatPieces ==
    {TokenYear, TokenMonth, TokenDay, TokenHours, TokenMinutes, TokenSeconds,
     <<"-">>}

RECURSIVE Flat(_)
Flat(pieces) == IF pieces = <<>> THEN <<>> ELSE Head(pieces) \o Flat(Tail(pieces))

\* the formats handed to formatDate
Formats ==
    {Flat(pieces) : pieces \in UNION {[1..k -> FormatPieces] : k \in 0..MaxPieces}}
        \cup {DefaultFormat}

\* the time zone of the environment
VARIABLE tz

dateVars == <<tz>>

\* a date helper about to be called, with its first argument
InitDates ==
    /\ tz \in Zones
    /\ \E v \in DateInputs : call = [fn |-> "", args |-> <<v>>, ret |-> JsUndefined]

IdleDates == tz = ZoneUTC

DaysBetween ==
    LET v == call.args[1] IN
    \E other \in DateInputs :
        Returned("daysBetween", <<v, other>>, daysBetween(v, other, tz))

FormatDate ==
    LET v == call.args[1] IN
    \E format \in Formats :
        Returned("formatDate", <<v, JsStr(format)>>, formatDate(v, format, tz))

(***************************************************************************)
(* Library: books, users and borrow records.  Times are Date time values   *)
(* in milliseconds, read from the clock now.                                *)
(***************************************************************************)
MaxBooks == 3

MaxUsers == 1

MaxRecords == 3

\* the clock advances by steps of a day and a half, up to this many
MaxSteps == 1

\* 1000 * 60 * 60 * 24
MsPerDay == 86400000

HalfDay == MsPerDay \div 2

TimeStep == 3 * HalfDay

\* the ids a caller may pass, 0 standing for an id that was never given out
BookIds == 0..MaxBooks

UserIds == 0..MaxUsers

MembershipTypes == {"Regular", "Student"}

DaysToReturn == {1}

FineRates == {1, 2}

VARIABLES dailyFineRate, books, users, records,
          nextBookId, nextUserId, nextRecordId, lastOp

libVars ==
    <<dailyFineRate, books, users, records,
      nextBookId, nextUserId, nextRecordId, lastOp>>

\* the outcome of a Library method: whether it threw, the fine and record of
\* a returnBook, the record ids listed by a checkOverdueBooks
Outcome(op, threw, fine, record, list) ==
    [op |-> op, threw |-> threw, fine |-> fine, record |-> record, list |-> list]

NoOp == Outcome("", FALSE, 0, 0, <<>>)

\* new Library(dailyFineRate)
InitLibrary ==
    /\ dailyFineRate \in FineRates
    /\ books = <<>>
    /\ users = <<>>
    /\ records = <<>>
    /\ nextBookId = 1
    /\ nextUserId = 1
    /\ nextRecordId = 1
    /\ lastOp = NoOp

IdleLibrary ==
    /\ dailyFineRate = 1
    /\ books = <<>>
    /\ users = <<>>
    /\ records = <<>>
    /\ nextBookId = 1
    /\ nextUserId = 1
    /\ nextRecordId = 1
    /\ lastOp = NoOp

\* map.set(key, value)
MapSet(map, key, value) ==
    [k \in DOMAIN map \cup {key} |-> IF k = key THEN value ELSE map[k]]

\* map.delete(key)
MapDelete(map, key) == [k \in DOMAIN map \ {key} |-> map[k]]

\* User.#getMembershipLimit
MembershipLimit(membershipType) ==
    CASE membershipType = "Regular" -> 3
      [] membershipType = "Premium" -> 5
      [] membershipType = "Student" -> 2
      [] membershipType = "Researcher" -> 10
      [] OTHER -> 3

\* a limit that still admits one more book when it is reached
canBorrowMoreAtLimit(user) ==
    Cardinality(DOMAIN user.borrowedBooks) <= MembershipLimit(user.membershipType)

\* User.canBorrowMore
canBorrowMore(user) ==
    Cardinality(DOMAIN user.borrowedBooks) < MembershipLimit(user.membershipType)

\* Math.ceil(p / q) for q > 0
Ceil(p, q) == 0 - ((0 - p) \div q)

\* BorrowRecord.getOverdueDays
getOverdueDays(record) ==
    IF record.status # "overdue" THEN 0
    ELSE Ceil(now - record.dueDate, MsPerDay)

\* BorrowRecord.calculateFine
calculateFine(record, fineRate) ==
    IF record.status # "overdue" THEN 0
    ELSE getOverdueDays(record) * fineRate

\* BorrowRecord.processReturn
processReturn(record) ==
    [record EXCEPT !.returnDate = now, !.status = "returned"]

\* BorrowRecord.checkOverdue: the record afterwards
checkOverdue(record) ==
    IF record.status = "returned" THEN record
    ELSE IF now > record.dueDate /\ record.status # "overdue"
         THEN [record EXCEPT !.status = "overdue"]
         ELSE record

\* BorrowRecord.checkOverdue: the value it returns
checkOverdueResult(record) ==
    IF record.status = "returned" THEN FALSE
    ELSE IF now > record.dueDate /\ record.status # "overdue" THEN TRUE
         ELSE record.status = "overdue"

\* a Library method that throws leaves the library as it was
Throws(op) ==
    /\ lastOp' = Outcome(op, TRUE, 0, 0, <<>>)
    /\ UNCHANGED <<dailyFineRate, books, users, records,
                   nextBookId, nextUserId, nextRecordId>>

\* Library.addBook
AddBook ==
    /\ nextBookId <= MaxBooks
    /\ books' = MapSet(books, nextBookId, [available |-> TRUE])
    /\ nextBookId' = nextBookId + 1
    /\ lastOp' = Outcome("addBook", FALSE, 0, 0, <<>>)
    /\ UNCHANGED <<dailyFineRate, users, records, nextUserId, nextRecordId>>

\* Library.addUser
AddUser ==
    /\ nextUserId <= MaxUsers
    /\ \E membershipType \in MembershipTypes :
          users' = MapSet(users, nextUserId,
                          [membershipType |-> membershipType,
                           borrowedBooks |-> <<>>])
    /\ nextUserId' = nextUserId + 1
    /\ lastOp' = Outcome("addUser", FALSE, 0, 0, <<>>)
    /\ UNCHANGED <<dailyFineRate, books, records, nextBookId, nextRecordId>>

\* the records removeBook looks for
ActiveRecords(id) ==
    {r \in DOMAIN records : records[r].bookId = id /\ records[r].status = "active"}

\* Library.removeBook
removeBook(id) ==
    IF ActiveRecords(id) # {}
    THEN Throws("removeBook")
    ELSE /\ books' = MapDelete(books, id)
         /\ lastOp' = Outcome("removeBook", FALSE, 0, 0, <<>>)
         /\ UNCHANGED <<dailyFineRate, users, records,
                        nextBookId, nextUserId, nextRecordId>>

RemoveBook == \E id \in BookIds : removeBook(id)

\* Library.removeUser
removeUser(id) ==
    IF id \in DOMAIN users /\ DOMAIN users[id].borrowedBooks # {}
    THEN Throws("removeUser")
    ELSE /\ users' = MapDelete(users, id)
         /\ lastOp' = Outcome("removeUser", FALSE, 0, 0, <<>>)
         /\ UNCHANGED <<dailyFineRate, books, records,
                        nextBookId, nextUserId, nextRecordId>>

RemoveUser == \E id \in UserIds : removeUser(id)

\* a borrowBook that lends a book whether it is available or not
borrowBookUnavailable(userId, bookId, daysToReturn) ==
        IF \/ userId \notin DOMAIN users
           \/ bookId \notin DOMAIN books
           \/ ~canBorrowMore(users[userId])
        THEN Throws("borrowBook")
        ELSE /\ nextRecordId <= MaxRecords
             /\ nextRecordId' = nextRecordId + 1
             /\ books' = [books EXCEPT ![bookId].available = FALSE]
             /\ users' = [users EXCEPT ![userId].borrowedBooks =
                              MapSet(@, bookId, nextRecordId)]
             /\ records' = MapSet(records, nextRecordId,
                                  [userId |-> userId, bookId |-> bookId,
                                   dueDate |-> now + daysToReturn * MsPerDay,
                                   returnDate |-> 0 - 1, status |-> "active"])
             /\ lastOp' = Outcome("borrowBook", FALSE, 0, nextRecordId, <<>>)
             /\ UNCHANGED <<dailyFineRate, nextBookId, nextUserId>>

\* Library.borrowBook; dueDate.setDate(dueDate.getDate() + daysToReturn)
\* moves the date by whole days of MsPerDay, the local days of IdleDates
borrowBook(userId, bookId, daysToReturn) ==
        IF \/ userId \notin DOMAIN users
           \/ bookId \notin DOMAIN books
           \/ ~books[bookId].available
           \/ ~canBorrowMore(users[userId])
        THEN Throws("borrowBook")
        ELSE /\ nextRecordId <= MaxRecords
             /\ nextRecordId' = nextRecordId + 1
             /\ books' = [books EXCEPT ![bookId].available = FALSE]
             /\ users' = [users EXCEPT ![userId].borrowedBooks =
                              MapSet(@, bookId, nextRecordId)]
             /\ records' = MapSet(records, nextRecordId,
                                  [userId |-> userId, bookId |-> bookId,
                                   dueDate |-> now + daysToReturn * MsPerDay,
                                   returnDate |-> 0 - 1, status |-> "active"])
             /\ lastOp' = Outcome("borrowBook", FALSE, 0, nextRecordId, <<>>)
             /\ UNCHANGED <<dailyFineRate, nextBookId, nextUserId>>

BorrowBook ==
    \E userId \in UserIds, bookId \in BookIds, daysToReturn \in DaysToReturn :
        borrowBook(userId, bookId, daysToReturn)

\* the records returnBook searches, in the order of the Map
Unreturned(bookId, userId) ==
    {r \in DOMAIN records : /\ records[r].bookId = bookId
                            /\ records[r].userId = userId
                            /\ records[r].status # "returned"}

\* Library.returnBook
returnBook(bookId, userId) ==
        IF \/ userId \notin DOMAIN users
           \/ bookId \notin DOMAIN books
           \/ Unreturned(bookId, userId) = {}
        THEN Throws("returnBook")
        ELSE LET found == Unreturned(bookId, userId)
                 r == CHOOSE x \in found : \A y \in found : x <= y
                 record == processReturn(records[r])
             IN
             /\ records' = [records EXCEPT ![r] = record]
             /\ books' = [books EXCEPT ![bookId].available = TRUE]
             /\ users' = [users EXCEPT ![userId].borrowedBooks =
                              MapDelete(@, bookId)]
             /\ lastOp' = Outcome("returnBook", FALSE,
                                  calculateFine(record, dailyFineRate), r, <<>>)
             /\ UNCHANGED <<dailyFineRate, nextBookId, nextUserId, nextRecordId>>

ReturnBook ==
    \E bookId \in BookIds, userId \in UserIds : returnBook(bookId, userId)

RECURSIVE Ascending(_)
\* the ids of a set in the order in which the Map of records holds them
Ascending(ids) ==
    IF ids = {} THEN <<>>
    ELSE LET first == CHOOSE x \in ids : \A y \in ids : x <= y IN
         <<first>> \o Ascending(ids \ {first})

\* Library.checkOverdueBooks
CheckOverdueBooks ==
    LET listed == {r \in DOMAIN records : /\ records[r].status = "active"
                                          /\ checkOverdueResult(records[r])}
    IN
    /\ records' = [r \in DOMAIN records |->
                       IF records[r].status = "active"
                       THEN checkOverdue(records[r]) ELSE records[r]]
    /\ lastOp' = Outcome("checkOverdueBooks", FALSE, 0, 0, Ascending(listed))
    /\ UNCHANGED <<dailyFineRate, books, users,
                   nextBookId, nextUserId, nextRecordId>>

\* time passes between two calls
Later ==
    /\ now < MaxSteps * TimeStep
    /\ now' = now + TimeStep
    /\ UNCHANGED <<timers, nextTimer>>

(***************************************************************************)
(* The loop of _.chunk, one iteration at a time.                           *)
(***************************************************************************)
\* iterations of the loop that the model follows
MaxIterations == 7

\* x + y for numbers n / d; NaN if either is NaN
Plus(x, y) ==
    IF x.t = "NaN" \/ y.t = "NaN" THEN JsNaN
    ELSE LET n == x.n * y.d + y.n * x.d
             d == x.d * y.d
             g == Gcd(Abs(n), d)
         IN Js("number", n \div g, d \div g, <<>>, <<>>, <<>>)

\* x < y; false if either is NaN
LessThan(x, y) ==
    /\ x.t # "NaN" /\ y.t # "NaN"
    /\ x.n * y.d < y.n * x.d

\* the integer an index argument of slice is cut down to; NaN is 0
Truncated(x) ==
    IF x.t = "NaN" THEN 0
    ELSE IF x.n >= 0 THEN x.n \div x.d
    ELSE 0 - ((0 - x.n) \div x.d)

\* the sizes handed to chunk
ChunkSizes ==
    {JsNum(0 - 1), JsNum(0), JsQuotient(1, 2), JsNum(1), JsNum(2), JsNaN}

VARIABLES chArr, chSize, chIndex, chResult, chPc, chIterations

chunkVars == <<chArr, chSize, chIndex, chResult, chPc, chIterations>>

\* _.chunk(arr, size) has been called
InitChunk ==
    /\ chArr \in {JsNull} \cup {JsArr(elems) : elems \in Arrays}
    /\ chSize \in ChunkSizes
    /\ chIndex = JsNum(0)
    /\ chResult = <<>>
    /\ chPc = "call"
    /\ chIterations = 0

IdleChunk ==
    /\ chArr = JsNull
    /\ chSize = JsNum(1)
    /\ chIndex = JsNum(0)
    /\ chResult = <<>>
    /\ chPc = "idle"
    /\ chIterations = 0

\* if (!Array.isArray(arr)) return []; const result = []; let i = 0
ChunkEnter ==
    /\ chPc = "call"
    /\ chPc' = IF IsArray(chArr) THEN "loop" ELSE "done"
    /\ UNCHANGED <<chArr, chSize, chIndex, chResult, chIterations>>

\* an index that moves by the magnitude of size
AdvanceByMagnitude(index, size) ==
    IF size.t = "NaN" THEN JsNaN
    ELSE Plus(index, Js("number", Abs(size.n), size.d, <<>>, <<>>, <<>>))

\* i += size
Advance(index, size) == Plus(index, size)

\* i < arr.length holds: result.push(arr.slice(i, i + size)); i += size
ChunkIterate ==
    /\ chPc = "loop"
    /\ LessThan(chIndex, JsNum(Len(chArr.a)))
    /\ chIterations < MaxIterations
    /\ chResult' = Append(chResult,
                          JsArr(Slice(chArr.a, Truncated(chIndex),
                                      Truncated(Plus(chIndex, chSize)))))
    /\ chIndex' = Advance(chIndex, chSize)
    /\ chIterations' = chIterations + 1
    /\ UNCHANGED <<chArr, chSize, chPc>>

\* i < arr.length fails: return result
ChunkReturn ==
    /\ chPc = "loop"
    /\ ~LessThan(chIndex, JsNum(Len(chArr.a)))
    /\ chPc' = "done"
    /\ UNCHANGED <<chArr, chSize, chIndex, chResult, chIterations>>

(***************************************************************************)
(* BankAccount: a private balance and a private list of transactions       *)
(***************************************************************************)
MaxTransactions == 3

Owners == {"Alice", "Bob"}

\* what is passed as the target of a transfer
Targets == Owners \cup {"none"}

InitialBalances == {0, 2}

Amounts == {0 - 1, 0, 1, 2}

VARIABLES accounts, bankOp

bankVars == <<accounts, bankOp>>

Transaction(type, amount) == [type |-> type, amount |-> amount]

NewAccount == [balance |-> 0, transactions |-> <<>>]

\* #deposit(amount, description) of account owner
PrivateDeposit(accts, owner, amount) ==
    [accts EXCEPT ![owner] =
        [balance |-> @.balance + amount,
         transactions |-> Append(@.transactions, Transaction("deposit", amount))]]

\* the test that makes #withdraw throw "Insufficient funds"
InsufficientFunds(accts, owner, amount) == amount > accts[owner].balance

\* a withdrawal that leaves no transaction
PrivateWithdrawUnlogged(accts, owner, amount) ==
    [accts EXCEPT ![owner] =
        [balance |-> @.balance - amount, transactions |-> @.transactions]]

\* #withdraw(amount, description) of account owner, when it does not throw
PrivateWithdraw(accts, owner, amount) ==
    [accts EXCEPT ![owner] =
        [balance |-> @.balance - amount,
         transactions |-> Append(@.transactions,
                                 Transaction("withdrawal", amount))]]

\* new BankAccount(owner, initialBalance)
BankAccount(accts, owner, initialBalance) ==
    IF initialBalance > 0 THEN PrivateDeposit(accts, owner, initialBalance)
    ELSE accts

BankOutcome(op, threw) == [op |-> op, threw |-> threw]

InitBank ==
    /\ \E a, b \in InitialBalances :
         accounts = BankAccount(BankAccount([o \in Owners |-> NewAccount],
                                            "Alice", a), "Bob", b)
    /\ bankOp = BankOutcome("none", FALSE)

IdleBank ==
    /\ accounts = [o \in Owners |-> NewAccount]
    /\ bankOp = BankOutcome("none", FALSE)

\* the lists followed have room for n more transactions
Room(owner, n) == Len(accounts[owner].transactions) + n <= MaxTransactions

BankThrows(op) == bankOp' = BankOutcome(op, TRUE) /\ UNCHANGED accounts

deposit(owner, amount) ==
    /\ Room(owner, 1)
    /\ IF amount <= 0 THEN BankThrows("deposit")
       ELSE /\ accounts' = PrivateDeposit(accounts, owner, amount)
            /\ bankOp' = BankOutcome("deposit", FALSE)

Deposit == \E owner \in Owners, amount \in Amounts : deposit(owner, amount)

withdraw(owner, amount) ==
    /\ Room(owner, 1)
    /\ IF amount <= 0 \/ InsufficientFunds(accounts, owner, amount)
       THEN BankThrows("withdraw")
       ELSE /\ accounts' = PrivateWithdraw(accounts, owner, amount)
            /\ bankOp' = BankOutcome("withdraw", FALSE)

Withdraw == \E owner \in Owners, amount \in Amounts : withdraw(owner, amount)

transfer(owner, amount, targetAccount) ==
    /\ Room(owner, IF targetAccount = owner THEN 2 ELSE 1)
    /\ targetAccount \in Owners => Room(targetAccount, 1)
    /\ IF \/ targetAccount \notin Owners
          \/ InsufficientFunds(accounts, owner, amount)
       THEN BankThrows("transfer")
       ELSE /\ accounts' = PrivateDeposit(
                               PrivateWithdraw(accounts, owner, amount),
                               targetAccount, amount)
            /\ bankOp' = BankOutcome("transfer", FALSE)

Transfer ==
    \E owner \in Owners, amount \in Amounts, targetAccount \in Targets :
        transfer(owner, amount, targetAccount)

(***************************************************************************)
(* withRetry and fileOperationWithRetry                                    *)
(***************************************************************************)
MaxRetries == 4

MaxDelay == 2

\* how long an attempt takes to settle, and how late a timer may fire
Durations == {0, 1}

RetryFunctions == {"withRetry", "fileOperationWithRetry"}

VARIABLES retryFn, maxRetries, delayArg, delay, attempt, retryPc, attempts,
          waits, retryResult

retryVars ==
    <<retryFn, maxRetries, delayArg, delay, attempt, retryPc, attempts,
      waits, retryResult>>

InitRetry ==
    /\ retryFn \in RetryFunctions
    /\ maxRetries \in 0..MaxRetries
    /\ delayArg \in 1..MaxDelay
    /\ delay = delayArg
    /\ attempt = 1
    /\ retryPc = "call"
    /\ attempts = <<>>
    /\ waits = <<>>
    /\ retryResult = [t |-> "pending"]

IdleRetry ==
    /\ retryFn = "withRetry"
    /\ maxRetries = 0
    /\ delayArg = 0
    /\ delay = 0
    /\ attempt = 1
    /\ retryPc = "idle"
    /\ attempts = <<>>
    /\ waits = <<>>
    /\ retryResult = [t |-> "pending"]

RECURSIVE Pow(_, _)
\* Math.pow(base, exponent), for whole exponents >= 0
Pow(base, exponent) ==
    IF exponent = 0 THEN 1 ELSE base * Pow(base, exponent - 1)

\* a backoff that grows by delay with each attempt
WaitTimeLinear(fn, d, k) ==
    IF fn = "withRetry" THEN d * k ELSE d

\* the time passed to setTimeout after the failure of attempt k:
\* delay * Math.pow(2, attempt - 1) in withRetry, the variable delay in
\* fileOperationWithRetry
WaitTime(fn, d, k) ==
    IF fn = "withRetry" THEN d * Pow(2, k - 1) ELSE d

\* fn() or operation() is called: one more attempt, not settled yet
Invoked(k) ==
    Append(attempts, [attempt |-> k, start |-> now', outcome |-> "pending",
                      end |-> 0])

\* what the rejection carries
Rejection(fn, failed) ==
    IF fn = "withRetry"
    THEN [t |-> "error",
          of |-> IF failed = 0 THEN "TypeError" ELSE "after retries"]
    ELSE [t |-> "error", of |-> IF failed = 0 THEN "undefined" ELSE "lastError"]

\* the call: the loop is entered, and fn is invoked if 1 <= maxRetries
RetryCall ==
    /\ retryPc = "call"
    /\ UNCHANGED clockVars
    /\ IF attempt <= maxRetries
       THEN /\ attempts' = Invoked(attempt)
            /\ retryPc' = "fn"
            /\ UNCHANGED retryResult
       ELSE /\ retryPc' = "rejected"
            /\ retryResult' = Rejection(retryFn, 0)
            /\ UNCHANGED attempts
    /\ UNCHANGED <<retryFn, maxRetries, delayArg, delay, attempt, waits>>

\* await fn() resolves: the value is returned
FnResolves ==
    /\ retryPc = "fn"
    /\ \E d \in Durations : now' = now + d
    /\ attempts' = [attempts EXCEPT ![Len(attempts)] =
                       [@ EXCEPT !.outcome = "ok", !.end = now']]
    /\ retryPc' = "resolved"
    /\ retryResult' = [t |-> "value", of |-> attempt]
    /\ UNCHANGED <<retryFn, maxRetries, delayArg, delay, attempt, waits>>
    /\ UNCHANGED <<timers, nextTimer>>

\* await fn() rejects: the catch block, then either the timer of the wait
\* or the end of the loop and the throw after it
FnRejects ==
    /\ retryPc = "fn"
    /\ \E d \in Durations : now' = now + d
    /\ attempts' = [attempts EXCEPT ![Len(attempts)] =
                       [@ EXCEPT !.outcome = "error", !.end = now']]
    /\ IF attempt < maxRetries
       THEN LET waitTime == WaitTime(retryFn, delay, attempt) IN
            /\ timers' = SetTimeout(timers, nextTimer, now' + waitTime,
                                    "resolve", attempt)
            /\ nextTimer' = nextTimer + 1
            /\ waits' = Append(waits, [after |-> attempt, ms |-> waitTime,
                                       from |-> now'])
            /\ retryPc' = "wait"
            /\ UNCHANGED <<attempt, retryResult>>
       ELSE /\ attempt' = attempt + 1
            /\ retryPc' = "rejected"
            /\ retryResult' = Rejection(retryFn, attempt)
            /\ UNCHANGED <<timers, nextTimer, waits>>
    /\ UNCHANGED <<retryFn, maxRetries, delayArg, delay>>

\* the timer of the wait fires, on time or late: fileOperationWithRetry
\* doubles delay; attempt++ and the next call of fn
RetryTimer ==
    /\ retryPc = "wait"
    /\ \E tm \in timers, late \in Durations :
         /\ now' = (IF tm.due > now THEN tm.due ELSE now) + late
         /\ timers' = timers \ {tm}
    /\ delay' = IF retryFn = "fileOperationWithRetry" THEN delay * 2
                ELSE delay
    /\ attempt' = attempt + 1
    /\ attempts' = Invoked(attempt')
    /\ retryPc' = "fn"
    /\ UNCHANGED <<retryFn, maxRetries, delayArg, waits, retryResult,
                   nextTimer>>

(***************************************************************************)
(* fetchWithTimeoutControl: Promise.race of a request and a timeout        *)
(***************************************************************************)
MaxRaceTime == 3

\* the delay and timeoutMs passed
RaceTimes == (0 - 1)..MaxRaceTime

VARIABLES raceDelay, timeoutMs, racePc, requestPromise, timeoutPromise,
          raceOutcome, settlements

raceVars ==
    <<raceDelay, timeoutMs, racePc, requestPromise, timeoutPromise,
      raceOutcome, settlements>>

Pending == [state |-> "pending", of |-> "none"]

InitRace ==
    /\ raceDelay \in RaceTimes
    /\ timeoutMs \in RaceTimes
    /\ racePc = "call"
    /\ requestPromise = Pending
    /\ timeoutPromise = Pending
    /\ raceOutcome = Pending
    /\ settlements = 0

IdleRace ==
    /\ raceDelay = 0
    /\ timeoutMs = 0
    /\ racePc = "idle"
    /\ requestPromise = Pending
    /\ timeoutPromise = Pending
    /\ raceOutcome = Pending
    /\ settlements = 0

\* the time after which Node's setTimeout(cb, ms) fires: a number below 1
\* is taken as 1 (the inputs stay below the largest delay, 2^31 - 1)
TimerDelay(ms) == IF ms >= 1 THEN ms ELSE 1

\* the timer that fires next: the earliest due, the first armed among equals
NextDue(ts) ==
    CHOOSE tm \in ts :
        \A other \in ts :
            tm.due < other.due \/ (tm.due = other.due /\ tm.id <= other.id)

\* a promise settles once: resolve and reject of a settled promise do nothing
Settle(promise, state, of) ==
    IF promise.state = "pending" THEN [state |-> state, of |-> of]
    ELSE promise

\* fetchWithTimeoutControl(id, delay, timeoutMs) up to its await:
\* fetchWithTimeout arms the timer of the request, timeout(ms) the other
RaceCall ==
    /\ racePc = "call"
    /\ timers' =
         SetTimeout(
             SetTimeout(timers, nextTimer, now + TimerDelay(raceDelay),
                        "request", 1),
             nextTimer + 1, now + TimerDelay(timeoutMs), "timeout", 1)
    /\ nextTimer' = nextTimer + 2
    /\ racePc' = "await"
    /\ UNCHANGED <<now, raceDelay, timeoutMs, requestPromise, timeoutPromise,
                   raceOutcome, settlements>>

\* the next timer fires, on time or late
Fires(kind) ==
    /\ timers # {}
    /\ NextDue(timers).args = kind
    /\ \E late \in Durations :
         now' = Max(now, NextDue(timers).due) + late
    /\ timers' = timers \ {NextDue(timers)}
    /\ UNCHANGED nextTimer

\* the timer of fetchWithTimeout: resolve({id, result, time}); the race,
\* and with it the call, takes the result if nothing has settled it
RequestCompletes ==
    /\ racePc \in {"await", "settled"}
    /\ Fires("request")
    /\ requestPromise' = Settle(requestPromise, "fulfilled", "data")
    /\ raceOutcome' = Settle(raceOutcome, "fulfilled", "data")
    /\ settlements' = settlements + (IF raceOutcome' # raceOutcome THEN 1
                                     ELSE 0)
    /\ racePc' = "settled"
    /\ UNCHANGED <<raceDelay, timeoutMs, timeoutPromise>>

\* the timer of timeout(ms): reject(new Error(...)); the catch block
\* rethrows the error
TimeoutFires ==
    /\ racePc \in {"await", "settled"}
    /\ Fires("timeout")
    /\ timeoutPromise' = Settle(timeoutPromise, "rejected", "timeout")
    /\ raceOutcome' = Settle(raceOutcome, "rejected", "timeout")
    /\ settlements' = settlements + (IF raceOutcome' # raceOutcome THEN 1
                                     ELSE 0)
    /\ racePc' = "settled"
    /\ UNCHANGED <<raceDelay, timeoutMs, requestPromise>>

(***************************************************************************)
(* weatherCache and loadWeatherForCity                                     *)
(***************************************************************************)
MaxElapses == 3

MaxServiceCalls == 2

MaxInFlight == 2

\* 30 minutes, in ms
CacheTtl == 1800000

\* the steps of the clock followed: 1 ms and 30 minutes
Elapses == {1, CacheTtl}

\* the cities asked for: "Ab", "AB", "ab" and "ba"
Cities == {<<"A", "b">>, <<"A", "B">>, <<"a", "b">>, <<"b", "a">>}

VARIABLES weatherCache, inFlight, serviceCalls, elapses, lastLoad

weatherVars == <<weatherCache, inFlight, serviceCalls, elapses, lastLoad>>

\* what a call has done: whether it went to the service, what it returned
Load(op, city, called, returned) ==
    [op |-> op, city |-> city, called |-> called, returned |-> returned]

NoData == [city |-> <<>>, n |-> 0]

InitWeather ==
    /\ weatherCache = <<>>
    /\ inFlight = {}
    /\ serviceCalls = 0
    /\ elapses = 0
    /\ lastLoad = Load("none", <<>>, FALSE, NoData)

IdleWeather ==
    /\ weatherCache = <<>>
    /\ inFlight = {}
    /\ serviceCalls = 0
    /\ elapses = MaxElapses
    /\ lastLoad = Load("idle", <<>>, FALSE, NoData)

\* weatherCache.set(city, data)
set(data, city, weather) ==
    MapSet(data, ToLowerCase(city), [timestamp |-> now, data |-> weather])

\* an entry that is never too old
ExpiredNever(cacheEntry) == FALSE

\* Date.now() - cacheEntry.timestamp > 1800000
Expired(cacheEntry) == now - cacheEntry.timestamp > CacheTtl

\* what weatherCache.get(city) leaves in the cache
CacheAfterGet(data, city) ==
    IF ToLowerCase(city) \in DOMAIN data /\ Expired(data[ToLowerCase(city)])
    THEN MapDelete(data, ToLowerCase(city))
    ELSE data

\* what weatherCache.get(city) returns; NoData stands for null
get(data, city) ==
    IF ToLowerCase(city) \notin DOMAIN data THEN NoData
    ELSE IF Expired(data[ToLowerCase(city)]) THEN NoData
    ELSE data[ToLowerCase(city)].data

\* weatherCache.get(city), called on its own
GetCall(city) ==
    /\ weatherCache' = CacheAfterGet(weatherCache, city)
    /\ lastLoad' = Load("get", city, FALSE, get(weatherCache, city))
    /\ UNCHANGED <<inFlight, serviceCalls, elapses, clockVars>>

Get == \E city \in Cities : GetCall(city)

\* weatherCache.clear()
Clear ==
    /\ weatherCache # <<>>
    /\ weatherCache' = <<>>
    /\ lastLoad' = Load("clear", <<>>, FALSE, NoData)
    /\ UNCHANGED <<inFlight, serviceCalls, elapses, clockVars>>

\* loadWeatherForCity(city, forceRefresh) up to its return of the cached
\* data or to its await of weatherService.getWeatherData(city)
loadWeatherForCity(city, forceRefresh) ==
    LET cachedData == IF forceRefresh THEN NoData
                      ELSE get(weatherCache, city)
    IN /\ weatherCache' = IF forceRefresh THEN weatherCache
                          ELSE CacheAfterGet(weatherCache, city)
       /\ IF cachedData # NoData
          THEN /\ lastLoad' = Load("load", city, FALSE, cachedData)
               /\ UNCHANGED <<inFlight, serviceCalls>>
          ELSE /\ serviceCalls < MaxServiceCalls
               /\ Cardinality(inFlight) < MaxInFlight
               /\ serviceCalls' = serviceCalls + 1
               /\ inFlight' = inFlight \cup {[city |-> city,
                                              n |-> serviceCalls']}
               /\ lastLoad' = Load("load", city, TRUE, NoData)
       /\ UNCHANGED <<elapses, clockVars>>

LoadWeatherForCity ==
    \E city \in Cities, forceRefresh \in BOOLEAN :
        loadWeatherForCity(city, forceRefresh)

\* the await resolves: the data is stored and returned
FetchResolves ==
    \E request \in inFlight :
        /\ inFlight' = inFlight \ {request}
        /\ weatherCache' = set(weatherCache, request.city, request)
        /\ lastLoad' = Load("resolved", request.city, TRUE, request)
        /\ UNCHANGED <<serviceCalls, elapses, clockVars>>

\* the await rejects: the catch block shows the error and returns null
FetchRejects ==
    \E request \in inFlight :
        /\ inFlight' = inFlight \ {request}
        /\ lastLoad' = Load("rejected", request.city, TRUE, NoData)
        /\ UNCHANGED <<weatherCache, serviceCalls, elapses, clockVars>>

\* time passes
Elapse ==
    /\ elapses < MaxElapses
    /\ \E ms \in Elapses : now' = now + ms
    /\ elapses' = elapses + 1
    /\ UNCHANGED <<timers, nextTimer, weatherCache, inFlight, serviceCalls,
                   lastLoad>>

(***************************************************************************)
(* Specifications                                                          *)
(***************************************************************************)
\* the variables of the parts added last, and their state when unused
restVars == <<chunkVars, bankVars, retryVars, raceVars, weatherVars>>

IdleRest ==
    IdleChunk /\ IdleBank /\ IdleRetry /\ IdleRace /\ IdleWeather

vars ==
    <<memoVars, clockVars, debounceVars, throttleVars, curryVars, helperVars,
      dateVars, libVars, restVars>>

MemoNext ==
    Memoized /\ UNCHANGED <<clockVars, debounceVars, throttleVars, curryVars, helperVars, dateVars,
                libVars, restVars>>

MemoInit ==
    InitMemo /\ InitClock({0}) /\ IdleDebounce /\ IdleThrottle /\ IdleCurry
        /\ IdleHelpers /\ IdleDates /\ IdleLibrary /\ IdleRest

SpecMemo == MemoInit /\ [][MemoNext]_vars

DebounceNext ==
    \/ Debounced /\ UNCHANGED <<memoVars, throttleVars, curryVars, helperVars, dateVars,
                libVars, restVars>>
    \/ DebounceFire /\ UNCHANGED <<memoVars, throttleVars, curryVars, helperVars, dateVars,
                libVars, restVars>>
    \/ Tick /\ UNCHANGED <<memoVars, debounceVars, throttleVars, curryVars, helperVars, dateVars,
                libVars, restVars>>

DebounceInit ==
    IdleMemo /\ InitClock({0}) /\ InitDebounce /\ IdleThrottle /\ IdleCurry
        /\ IdleHelpers /\ IdleDates /\ IdleLibrary /\ IdleRest

SpecDebounce == DebounceInit /\ [][DebounceNext]_vars

ThrottleNext ==
    \/ Throttled /\ UNCHANGED <<memoVars, debounceVars, curryVars, helperVars, dateVars,
                libVars, restVars>>
    \/ Tick /\ UNCHANGED <<memoVars, debounceVars, throttleVars, curryVars, helperVars, dateVars,
                libVars, restVars>>

ThrottleInit ==
    IdleMemo /\ InitClock({0}) /\ IdleDebounce /\ InitThrottle /\ IdleCurry
        /\ IdleHelpers /\ IdleDates /\ IdleLibrary /\ IdleRest

SpecThrottle == ThrottleInit /\ [][ThrottleNext]_vars

CurryNext ==
    Curried /\ UNCHANGED <<memoVars, clockVars, debounceVars, throttleVars, helperVars, dateVars,
                libVars, restVars>>

CurryInit ==
    IdleMemo /\ InitClock({0}) /\ IdleDebounce /\ IdleThrottle /\ InitCurry
        /\ IdleHelpers /\ IdleDates /\ IdleLibrary /\ IdleRest

SpecCurry == CurryInit /\ [][CurryNext]_vars

HelpersInit ==
    IdleMemo /\ InitClock({0}) /\ IdleDebounce /\ IdleThrottle /\ IdleCurry
        /\ InitHelpers /\ IdleDates /\ IdleLibrary /\ IdleRest

HelperCall ==
    \/ Capitalize \/ Truncate \/ KebabCase \/ IsPalindrome
    \/ Clamp \/ Mean
    \/ Last \/ Includes \/ Without \/ Chunk \/ Unique
    \/ ObjectKeys \/ ObjectValues \/ Pick \/ Omit

HelpersNext ==
    HelperCall
        /\ UNCHANGED <<memoVars, clockVars, debounceVars, throttleVars, curryVars,
                       dateVars, libVars, restVars>>

SpecHelpers == HelpersInit /\ [][HelpersNext]_vars

DatesInit ==
    IdleMemo /\ InitClock({0}) /\ IdleDebounce /\ IdleThrottle /\ IdleCurry
        /\ InitDates /\ IdleLibrary /\ IdleRest

DateCall == DaysBetween \/ FormatDate

DatesNext ==
    DateCall
        /\ UNCHANGED <<memoVars, clockVars, debounceVars, throttleVars, curryVars,
                       dateVars, libVars, restVars>>

SpecDates == DatesInit /\ [][DatesNext]_vars

LibraryInit ==
    IdleMemo /\ InitClock({0}) /\ IdleDebounce /\ IdleThrottle /\ IdleCurry
        /\ IdleHelpers /\ IdleDates /\ InitLibrary /\ IdleRest

LibraryCall ==
    \/ AddBook \/ AddUser \/ RemoveBook \/ RemoveUser
    \/ BorrowBook \/ ReturnBook \/ CheckOverdueBooks

LibraryNext ==
    \/ LibraryCall
           /\ UNCHANGED <<memoVars, clockVars, debounceVars, throttleVars,
                          curryVars, helperVars, dateVars, restVars>>
    \/ Later
           /\ UNCHANGED <<memoVars, debounceVars, throttleVars, curryVars,
                          helperVars, dateVars, libVars, restVars>>

SpecLibrary == LibraryInit /\ [][LibraryNext]_vars

\* the parts above, unused
firstVars ==
    <<memoVars, clockVars, debounceVars, throttleVars, curryVars, helperVars,
      dateVars, libVars>>

IdleFirst ==
    IdleMemo /\ InitClock({0}) /\ IdleDebounce /\ IdleThrottle /\ IdleCurry
        /\ IdleHelpers /\ IdleDates /\ IdleLibrary

ChunkLoopInit ==
    IdleFirst /\ InitChunk /\ IdleBank /\ IdleRetry /\ IdleRace /\ IdleWeather

ChunkLoopNext ==
    /\ ChunkEnter \/ ChunkIterate \/ ChunkReturn
    /\ UNCHANGED <<firstVars, bankVars, retryVars, raceVars, weatherVars>>

\* the call runs on: an iteration that can be made is made
SpecChunkLoop ==
    ChunkLoopInit /\ [][ChunkLoopNext]_vars /\ WF_vars(ChunkLoopNext)

BankInit ==
    IdleFirst /\ IdleChunk /\ InitBank /\ IdleRetry /\ IdleRace /\ IdleWeather

BankNext ==
    /\ Deposit \/ Withdraw \/ Transfer
    /\ UNCHANGED <<firstVars, chunkVars, retryVars, raceVars, weatherVars>>

SpecBank == BankInit /\ [][BankNext]_vars

RetryInit ==
    IdleFirst /\ IdleChunk /\ IdleBank /\ InitRetry /\ IdleRace /\ IdleWeather

RetryNext ==
    /\ RetryCall \/ FnResolves \/ FnRejects \/ RetryTimer
    /\ UNCHANGED <<memoVars, debounceVars, throttleVars, curryVars,
                   helperVars, dateVars, libVars, chunkVars, bankVars,
                   raceVars, weatherVars>>

SpecRetry == RetryInit /\ [][RetryNext]_vars

RaceInit ==
    IdleFirst /\ IdleChunk /\ IdleBank /\ IdleRetry /\ InitRace /\ IdleWeather

RaceNext ==
    /\ RaceCall \/ RequestCompletes \/ TimeoutFires
    /\ UNCHANGED <<memoVars, debounceVars, throttleVars, curryVars,
                   helperVars, dateVars, libVars, chunkVars, bankVars,
                   retryVars, weatherVars>>

SpecRace == RaceInit /\ [][RaceNext]_vars

WeatherInit ==
    IdleFirst /\ IdleChunk /\ IdleBank /\ IdleRetry /\ IdleRace /\ InitWeather

WeatherNext ==
    /\ Get \/ Clear \/ LoadWeatherForCity \/ FetchResolves \/ FetchRejects
          \/ Elapse
    /\ UNCHANGED <<memoVars, debounceVars, throttleVars, curryVars,
                   helperVars, dateVars, libVars, chunkVars, bankVars,
                   retryVars, raceVars>>

SpecWeather == WeatherInit /\ [][WeatherNext]_vars

(***************************************************************************)
(* Properties of memoize                                                   *)
(***************************************************************************)
Pure == memoFn \in {"typeOf", "count"}

Completed == {a \in DOMAIN wCalls : wCalls[a] >= 1}

\* C1: for a pure, non-throwing fn the wrapper invokes fn at most once per
\* argument list: the first call with an argument list invokes fn exactly
\* once, and a later call with the same arguments returns the stored result
\* without invoking fn again.
C1_OncePerArgumentList ==
    Pure =>
        /\ \A a \in DOMAIN fnCalls : fnCalls[a] <= 1
        /\ \A a \in Completed : fnCalls[a] = 1
        /\ memoLast.hit => memoLast.result = cache[memoLast.key]

\* C7: the cache key distinguishes call shapes: a call is served from a
\* cache entry only if that entry was computed for a structurally equal
\* argument list.
C7_KeyDistinguishesArguments ==
    memoLast.hit => memoLast.from = memoLast.args

NoEviction ==
    \A k \in DOMAIN cache : k \in DOMAIN cache' /\ cache'[k] = cache[k]

OneEntryPerKey ==
    /\ DOMAIN cache = {JSONStringify(a) : a \in Completed}
    /\ Cardinality(DOMAIN cache) =
           Cardinality({JSONStringify(a) : a \in Completed})

\* C8: the cache is never evicted or overwritten: a stored key keeps its
\* value, the set of keys only grows, and the cache holds exactly one entry
\* per distinct key with which the wrapper has completed a call.
C8_CacheOnlyGrows == []OneEntryPerKey /\ [][NoEviction]_vars

\* three completed calls, one of them a hit, on a cache of two entries
C8_Witness ==
    /\ Cardinality(DOMAIN cache) = 2
    /\ memoLast.hit
    /\ memoLast.n = 3

(***************************************************************************)
(* Properties of debounce                                                  *)
(***************************************************************************)
FiresIn(log) == {i \in 1..Len(log) : log[i].kind = "fire"}

FiresOf(log, c) == {f \in FiresIn(log) : log[f].src = c}

\* the call made last before position p of the log
LastCallBefore(log, p) ==
    CHOOSE c \in CallsIn(log) :
        c < p /\ \A d \in CallsIn(log) : d < p => d <= c

\* call c is followed by another call less than wait ms later
InsideBurst(log, c) ==
    \E d \in CallsIn(log) : d > c /\ log[d].t - log[c].t < dWait

\* after call c the wrapper was left uncalled for wait ms, and they are over
QuietAfter(log, c) ==
    /\ \A d \in CallsIn(log) : d > c => log[d].t > log[c].t + dWait
    /\ now > log[c].t + dWait

C6_SinglePendingTimer ==
    /\ Cardinality(timers) <= 1
    /\ \A tm \in timers : tm.id = timeout
    /\ \A f \in FiresIn(dLog) :
           \A c \in CallsIn(dLog) : ~(dLog[f].src < c /\ c < f)

\* a call cancelled the pending timer of the call before it, and its own
\* timer is pending
C6_Witness ==
    /\ Len(dLog) >= 2
    /\ dLog[Len(dLog)].kind = "call"
    /\ dLog[Len(dLog) - 1].kind = "call"
    /\ dLog[Len(dLog)].t < dLog[Len(dLog) - 1].t + dWait
    /\ Cardinality(timers) = 1

(***************************************************************************)
(* Properties of throttle                                                  *)
(***************************************************************************)
RanIn(log) == {i \in 1..Len(log) : log[i].ran}

RanBefore(log, p) == {e \in RanIn(log) : e < p}

\* the executed call made last before position p of the log
LastRanBefore(log, p) ==
    CHOOSE e \in RanBefore(log, p) : \A d \in RanBefore(log, p) : d <= e

\* C3: a call made less than wait ms after the last executed call is
\* dropped (fn is invoked neither then nor later) and does not move the
\* window; a call made at least wait ms after it invokes fn; so two
\* executions are at least wait ms apart.
C3_ThrottleWindow ==
    /\ \A p \in 1..Len(tLog) :
           RanBefore(tLog, p) # {} =>
               LET e == LastRanBefore(tLog, p) IN
               tLog[p].ran <=> tLog[p].t - tLog[e].t >= tWait
    /\ \A p, q \in RanIn(tLog) : p < q => tLog[q].t - tLog[p].t >= tWait
    /\ RanIn(tLog) # {} =>
           lastCall = tLog[LastRanBefore(tLog, Len(tLog) + 1)].t
    /\ timers = {}

\* an executed call, a dropped call inside its window, and an executed
\* call exactly wait ms after the first
C3_Witness ==
    /\ Len(tLog) >= 3
    /\ tWait >= 1
    /\ \E p \in 1..(Len(tLog) - 2) :
           /\ tLog[p].ran /\ ~tLog[p + 1].ran /\ tLog[p + 2].ran
           /\ tLog[p + 2].t = tLog[p].t + tWait

\* C4: the first call to a throttle wrapper invokes fn immediately and
\* returns its result, whatever wait and the clock are.
C4_FirstCallRuns ==
    Len(tLog) >= 1 =>
        tLog[1].ran /\ tLog[1].ret = FuncResult(tLog[1].args)

(***************************************************************************)
(* Properties of curry                                                     *)
(***************************************************************************)
NonEmptyGroups(chain) == \A i \in 1..Len(chain) : chain[i] # <<>>

Front(chain) == SubSeq(chain, 1, Len(chain) - 1)

CapturedArgsKept ==
    \A h \in DOMAIN wrappers :
        h \in DOMAIN wrappers' /\ wrappers'[h].args = wrappers[h].args

OwnChainOnly ==
    /\ \A r \in results : r.passed = Flatten(r.chain)
    /\ \A h \in DOMAIN wrappers : wrappers[h].args = Flatten(wrappers[h].chain)
    /\ wrappers[0].args = <<>>

\* C9: partial application never changes a captured argument sequence: a
\* call passes to fn the prefix captured by the wrapper it is made on
\* followed by the arguments of its own chain only, and the base wrapper
\* stays reusable.
C9_CapturedArgsImmutable == []OwnChainOnly /\ [][CapturedArgsKept]_vars

\* one partial wrapper called twice with different further arguments
C9_Witness ==
    \E r1, r2 \in results :
        /\ r1.via = r2.via /\ r1.via # 0
        /\ r1.passed # r2.passed
        /\ wrappers[r1.via].args # <<>>

(***************************************************************************)
(* Properties of the helpers                                               *)
(***************************************************************************)
FirstArg == call.args[1]

\* C10: no helper raises on a wrongly typed first argument, each returns
\* its neutral value: '' for capitalize, truncate and kebabCase of a
\* non-string, false for isPalindrome of a non-string, NaN for mean of a
\* non-array or an empty array, undefined for last, false for includes, []
\* for without, chunk and unique of a non-array, [] for keys and values and
\* {} for pick and omit of null or a non-object.
C10_NeutralValueOnWrongType ==
    call.fn # "" =>
        /\ (call.fn \in {"capitalize", "truncate", "kebabCase"}
                /\ FirstArg.t # "string") => call.ret = JsStr(<<>>)
        /\ (call.fn = "isPalindrome" /\ FirstArg.t # "string") =>
               call.ret = JsBool(FALSE)
        /\ (call.fn = "mean" /\ (FirstArg.t # "array" \/ FirstArg.a = <<>>)) =>
               call.ret = JsNaN
        /\ (call.fn = "last" /\ FirstArg.t # "array") => call.ret = JsUndefined
        /\ (call.fn = "includes" /\ FirstArg.t # "array") =>
               call.ret = JsBool(FALSE)
        /\ (call.fn \in {"without", "chunk", "unique"}
                /\ FirstArg.t # "array") => call.ret = JsArr(<<>>)
        /\ (call.fn \in {"keys", "values"}
                /\ FirstArg.t \notin {"object", "array"}) => call.ret = JsArr(<<>>)
        /\ (call.fn \in {"pick", "omit"}
                /\ FirstArg.t \notin {"object", "array"}) => call.ret = JsObj(<<>>)
        /\ (FirstArg.t \notin {"string", "array", "object"}) => call.ret # Throw

\* capitalize called with undefined has returned the empty string
C10_Witness ==
    /\ call.fn = "capitalize"
    /\ FirstArg = JsUndefined
    /\ call.ret = JsStr(<<>>)

RECURSIVE ConcatChunks(_)
\* the elements of the chunks, one chunk after the other
ConcatChunks(chunks) ==
    IF chunks = <<>> THEN <<>>
    ELSE Head(chunks).a \o ConcatChunks(Tail(chunks))

\* C11: for an array arr and a size n >= 1 the chunks of chunk(arr, n),
\* concatenated in order, are arr; every chunk but the last has length n, the
\* last one has a length between 1 and n, and chunk of the empty array is
\* the empty list.
C11_ChunksPartitionArray ==
    (call.fn = "chunk" /\ FirstArg.t = "array" /\ call.args[2].n >= 1) =>
        LET chunks == call.ret.a
            n == call.args[2].n
        IN
        /\ call.ret.t = "array"
        /\ ConcatChunks(chunks) = FirstArg.a
        /\ \A i \in 1..Len(chunks) :
               /\ chunks[i].t = "array"
               /\ i < Len(chunks) => Len(chunks[i].a) = n
               /\ i = Len(chunks) => Len(chunks[i].a) \in 1..n
        /\ FirstArg.a = <<>> => chunks = <<>>

\* an array of three elements cut into a chunk of two and a chunk of one
C11_Witness ==
    /\ call.fn = "chunk"
    /\ FirstArg = JsArr(<<JsNum(1), JsNum(2), JsNaN>>)
    /\ call.args[2] = JsNum(2)
    /\ Len(call.ret.a) = 2
    /\ Len(call.ret.a[2].a) = 1

\* C12: for numbers n, lo and hi with lo <= hi, clamp(n, lo, hi) returns a
\* value v with lo <= v <= hi: n itself when lo <= n <= hi, lo when n < lo
\* and hi when n > hi.
C12_ClampWithinBounds ==
    LET n == FirstArg
        lo == call.args[2]
        hi == call.args[3]
        v == call.ret
    IN
    (call.fn = "clamp" /\ n.t = "number" /\ NumLE(lo, hi)) =>
        /\ v.t = "number"
        /\ NumLE(lo, v) /\ NumLE(v, hi)
        /\ (NumLE(lo, n) /\ NumLE(n, hi)) => v = n
        /\ ~NumLE(lo, n) => v = lo
        /\ ~NumLE(n, hi) => v = hi

\* a number below the lower bound has been raised to it
C12_Witness ==
    /\ call.fn = "clamp"
    /\ FirstArg = JsNum(0)
    /\ call.args[2] = JsNum(1) /\ call.args[3] = JsNum(2)
    /\ call.ret = JsNum(1)

\* the position at which value occurs first in elems
FirstIndex(elems, value) == CHOOSE i \in 1..Len(elems) :
    elems[i] = value /\ \A j \in 1..(i - 1) : elems[j] # value

\* C13: unique(unique(arr)) = unique(arr) for every array arr, and
\* unique(arr) holds each distinct value of arr exactly once, in the order of
\* first occurrence.
C13_UniqueIdempotent ==
    (call.fn = "unique" /\ FirstArg.t = "array") =>
        LET arr == FirstArg.a
            out == call.ret.a
        IN
        /\ unique(call.ret) = call.ret
        /\ {out[i] : i \in 1..Len(out)} = {arr[i] : i \in 1..Len(arr)}
        /\ \A i, j \in 1..Len(out) : i < j =>
              /\ out[i] # out[j]
              /\ FirstIndex(arr, out[i]) < FirstIndex(arr, out[j])

\* a repeated value and a repeated NaN have been dropped
C13_Witness ==
    /\ call.fn = "unique"
    /\ FirstArg = JsArr(<<JsNaN, JsNum(1), JsNaN>>)
    /\ call.ret = JsArr(<<JsNaN, JsNum(1)>>)

\* the keys of a sequence of properties
KeysOf(props) == {props[i].k : i \in 1..Len(props)}

\* the keys handed to pick or omit after the object
Requested == {call.args[i].s : i \in 2..Len(call.args)}

\* C15: pick and omit consider only the own enumerable keys of obj: every
\* key of pick's result is a requested key and an own property of obj, every
\* key of omit's result is an own property of obj that was not requested, and
\* an inherited property never appears in either result.
C15_OwnKeysOnly ==
    (call.fn \in {"pick", "omit"} /\ ~NotObject(FirstArg)) =>
        LET own == KeysOf(OwnProps(FirstArg))
            got == KeysOf(call.ret.o)
        IN
        /\ call.fn = "pick" => got \subseteq (Requested \cap own)
        /\ call.fn = "omit" => got \subseteq (own \ Requested)
        /\ got \cap (KeysOf(PropsOf(FirstArg)) \ own) = {}

\* C16: isPalindrome returns false for the empty string and for every
\* non-string; for any other string it returns true exactly when the string,
\* lowercased and stripped of non-alphanumeric characters, equals its reverse.
C16_EmptyIsNoPalindrome ==
    call.fn = "isPalindrome" =>
        IF FirstArg.t # "string" \/ FirstArg.s = <<>>
        THEN call.ret = JsBool(FALSE)
        ELSE LET stripped == StripNonAlnum(ToLowerCase(FirstArg.s)) IN
             call.ret = JsBool(stripped = Reverse(stripped))

\* the first k characters of chars, none when k <= 0
FirstChars(chars, k) == [i \in 1..Min(Max(k, 0), Len(chars)) |-> chars[i]]

\* C17: truncate(s, length, suffix) returns s unchanged when
\* s.length <= length, and otherwise the first (length - suffix.length)
\* characters of s followed by suffix; a string longer than the limit is
\* always shortened.
C17_TruncateShortens ==
    (call.fn = "truncate" /\ FirstArg.t = "string") =>
        LET s == FirstArg.s
            length == call.args[2].n
            suffix == call.args[3].s
        IN
        IF Len(s) <= length THEN call.ret = FirstArg
        ELSE /\ call.ret = JsStr(FirstChars(s, length - Len(suffix)) \o suffix)
             /\ Len(call.ret.s) < Len(s)

(***************************************************************************)
(* Properties of the date helpers                                          *)
(***************************************************************************)
\* the local calendar day of a valid date
CalendarDay(date) ==
    LET f == Fields(date, tz) IN <<f.year, f.month, f.day>>

ValidDates == {v \in DateInputs : IsValidDate(AsDate(v))}

\* C14: for valid dates, daysBetween(d, d) = 0, daysBetween(a, b) =
\* daysBetween(b, a), the result is a non-negative integer, and it depends
\* only on the calendar day of each date, so two instants of one calendar day
\* give 0.
C14_DaysBetweenByCalendarDay ==
    LET a == call.args[1]
        b == call.args[2]
    IN
    (call.fn = "daysBetween" /\ a \in ValidDates /\ b \in ValidDates) =>
        /\ call.ret.t = "number" /\ call.ret.d = 1 /\ call.ret.n >= 0
        /\ a = b => call.ret = JsNum(0)
        /\ daysBetween(b, a, tz) = call.ret
        /\ CalendarDay(AsDate(a)) = CalendarDay(AsDate(b)) => call.ret = JsNum(0)
        /\ \A c \in ValidDates :
              CalendarDay(AsDate(c)) = CalendarDay(AsDate(a)) =>
                  /\ daysBetween(c, b, tz) = call.ret
                  /\ daysBetween(b, c, tz) = call.ret

\* two different instants of one local day are 0 days apart
C14_Witness ==
    /\ call.fn = "daysBetween"
    /\ tz = ZoneNewYork
    /\ call.args[1] = JsDate(Utc(2023, 7, 1, 4, 5, 6))
    /\ call.args[2] = JsDate(Utc(2023, 7, 1, 23, 30, 0))
    /\ CalendarDay(call.args[1]) = <<2023, 6, 1>>
    /\ call.ret = JsNum(0)

RECURSIVE ReplaceAll(_, _, _)
\* every occurrence of token in chars replaced, from left to right
ReplaceAll(chars, token, replacement) ==
    LET i == IndexOf(chars, token) IN
    IF i = 0 THEN chars
    ELSE SubSeq(chars, 1, i - 1) \o replacement
             \o ReplaceAll(SubSeq(chars, i + Len(token), Len(chars)),
                           token, replacement)

\* the format with each of its tokens replaced by the field of the date
AllTokensReplaced(date, format) ==
    LET f == Fields(date, tz)
        pad(num) == PadStart2(DigitsOf(num))
        r1 == ReplaceAll(format, TokenYear, DigitsOf(f.year))
        r2 == ReplaceAll(r1, TokenMonth, pad(f.month + 1))
        r3 == ReplaceAll(r2, TokenDay, pad(f.day))
        r4 == ReplaceAll(r3, TokenHours, pad(f.hours))
        r5 == ReplaceAll(r4, TokenMinutes, pad(f.minutes))
    IN ReplaceAll(r5, TokenSeconds, pad(f.seconds))

\* C18: formatDate(date, pattern) replaces the tokens YYYY, MM, DD, HH, mm
\* and ss of the pattern by the year and the two-digit month (1-12), day,
\* hours, minutes and seconds of a valid date and leaves the other characters
\* as they are; "YYYY-MM-DD" on 1 July 2023 gives "2023-07-01".
C18_FormatReplacesTokens ==
    (call.fn = "formatDate" /\ call.args[1] \in ValidDates) =>
        LET date == AsDate(call.args[1])
            format == call.args[2].s
        IN
        /\ call.ret = JsStr(AllTokensReplaced(date, format))
        /\ (format = DefaultFormat /\ CalendarDay(date) = <<2023, 6, 1>>) =>
              call.ret.s = <<"2", "0", "2", "3", "-", "0", "7", "-", "0", "1">>

(***************************************************************************)
(* Properties of the Library                                               *)
(***************************************************************************)
\* C19: a returnBook that finds its record past the due date reports a
\* fine of the overdue days times dailyFineRate, which is greater than 0; the
\* reported fine is 0 only when the record is not overdue.
C19_ReturnReportsFine ==
    (lastOp.op = "returnBook" /\ ~lastOp.threw) =>
        LET record == records[lastOp.record]
            overdue == record.returnDate > record.dueDate
            days == Ceil(record.returnDate - record.dueDate, MsPerDay)
        IN
        /\ overdue => (lastOp.fine = days * dailyFineRate /\ lastOp.fine > 0)
        /\ lastOp.fine = 0 => ~overdue

\* some record of the book has not been returned
Borrowed(id) ==
    \E r \in DOMAIN records :
        records[r].bookId = id /\ records[r].status # "returned"

\* C20: removeBook(id) throws and removes nothing whenever some record of
\* book id is unreturned, be its status "active" or "overdue"; a book is
\* deleted only when no unreturned record refers to it.
C20_BorrowedBookNotRemoved ==
    [][\A id \in BookIds :
          /\ (removeBook(id) /\ Borrowed(id)) =>
                 (lastOp'.threw /\ books' = books)
          /\ (id \in DOMAIN books /\ id \notin DOMAIN books') => ~Borrowed(id)]_vars

\* the unreturned records whose due date has passed
PastDue ==
    {r \in DOMAIN records :
        records[r].status # "returned" /\ now > records[r].dueDate}

\* C21: every call of checkOverdueBooks returns all overdue books: each
\* unreturned record whose due date has passed is in the result, also one
\* that an earlier call marked "overdue", and no returned record is.
C21_EveryCallListsAllOverdue ==
    [][CheckOverdueBooks =>
          {lastOp'.list[i] : i \in 1..Len(lastOp'.list)} = PastDue]_vars

\* the unreturned records of a book
UnreturnedOf(bookId) ==
    {r \in DOMAIN records :
        records[r].bookId = bookId /\ records[r].status # "returned"}

\* C26: a book of the library is unavailable if and only if exactly one
\* record for it is unreturned, the user of that record holds the book in
\* their borrowed set, and no book has two unreturned records at once.
C26_UnavailableIffOneUnreturned ==
    /\ \A b \in DOMAIN books :
          ~books[b].available <=> Cardinality(UnreturnedOf(b)) = 1
    /\ \A b \in BookIds : Cardinality(UnreturnedOf(b)) <= 1
    /\ \A r \in DOMAIN records :
          records[r].status # "returned" =>
              /\ records[r].userId \in DOMAIN users
              /\ records[r].bookId \in DOMAIN users[records[r].userId].borrowedBooks
              /\ users[records[r].userId].borrowedBooks[records[r].bookId] = r

\* a book is lent a second time, after its first loan was returned
C26_Witness ==
    \E b \in DOMAIN books :
        /\ ~books[b].available
        /\ \E r1, r2 \in DOMAIN records :
              /\ records[r1].bookId = b /\ records[r1].status = "returned"
              /\ records[r2].bookId = b /\ records[r2].status = "overdue"

\* the number of books a user holds
Held(userId) == Cardinality(DOMAIN users[userId].borrowedBooks)

\* C27: a user never holds more books than the limit of their membership
\* type, and a borrowBook by a user who holds as many as the limit throws
\* and changes nothing.
C27_BorrowLimit ==
    /\ [](\A u \in DOMAIN users :
             Held(u) <= MembershipLimit(users[u].membershipType))
    /\ [][\A u \in DOMAIN users, b \in BookIds, d \in DaysToReturn :
             (borrowBook(u, b, d)
                  /\ Held(u) >= MembershipLimit(users[u].membershipType)) =>
                 (lastOp'.threw /\ users' = users /\ records' = records
                      /\ books' = books)]_vars

\* a student holding two books has been refused a third, available one
C27_Witness ==
    /\ lastOp.op = "borrowBook" /\ lastOp.threw
    /\ \E u \in DOMAIN users :
          /\ users[u].membershipType = "Student"
          /\ Held(u) = 2
    /\ \E b \in DOMAIN books : books[b].available

(***************************************************************************)
(* Properties of the loop of chunk                                         *)
(***************************************************************************)
\* the array has elements to go through
NonEmptyArray == IsArray(chArr) /\ chArr.a # <<>>

\* size <= 0, which no NaN is
SizeNotPositive == chSize.t = "number" /\ chSize.n <= 0

\* size >= 1
SizeAtLeastOne == chSize.t = "number" /\ chSize.n >= chSize.d

C28_StillLooping ==
    /\ chPc = "loop"
    /\ chSize = JsNum(0)
    /\ chIterations = MaxIterations

(***************************************************************************)
(* Properties of BankAccount                                               *)
(***************************************************************************)
RECURSIVE Logged(_, _)
\* the sum of the amounts of the transactions of one type
Logged(transactions, type) ==
    IF transactions = <<>> THEN 0
    ELSE (IF Head(transactions).type = type THEN Head(transactions).amount
          ELSE 0) + Logged(Tail(transactions), type)

\* each balance is the logged deposits minus the logged withdrawals
BalanceMatchesLog ==
    \A o \in Owners :
        accounts[o].balance =
            Logged(accounts[o].transactions, "deposit")
                - Logged(accounts[o].transactions, "withdrawal")

Failed == {k \in 1..Len(attempts) : attempts[k].outcome = "error"}

\* C23: fn is invoked at most maxRetries times, one attempt after the end
\* of the other; the first success is returned and nothing is attempted
\* after it; the k-th failure with k < maxRetries is followed by a wait of
\* delay * 2^(k-1) ms before the next attempt; after maxRetries failures
\* the call rejects with no further wait; fileOperationWithRetry does the
\* same.
C23_RetrySchedule ==
    /\ Len(attempts) <= maxRetries
    /\ \A k \in 1..Len(attempts) :
         /\ attempts[k].attempt = k
         /\ attempts[k].outcome = "pending" => k = Len(attempts)
         /\ k > 1 => /\ attempts[k - 1].outcome = "error"
                     /\ attempts[k].start >= attempts[k - 1].end
         /\ attempts[k].outcome = "ok" =>
              /\ k = Len(attempts)
              /\ retryPc = "resolved"
              /\ retryResult = [t |-> "value", of |-> k]
    /\ retryPc = "resolved" => attempts[Len(attempts)].outcome = "ok"
    /\ Len(waits) = Cardinality({k \in Failed : k < maxRetries})
    /\ \A k \in 1..Len(waits) :
         /\ waits[k].after = k
         /\ waits[k].ms = delayArg * Pow(2, k - 1)
         /\ waits[k].from = attempts[k].end
         /\ k + 1 <= Len(attempts) =>
              attempts[k + 1].start >= waits[k].from + waits[k].ms
    /\ (retryPc # "call" /\ Cardinality(Failed) = maxRetries)
         <=> retryPc = "rejected"
    /\ retryPc = "rejected" => retryResult.t = "error" /\ timers = {}

\* four attempts of fileOperationWithRetry have failed, with waits of 2, 4
\* and 8 ms between them
C23_Witness ==
    /\ retryFn = "fileOperationWithRetry"
    /\ retryPc = "rejected"
    /\ Len(attempts) = 4
    /\ [k \in 1..Len(waits) |-> waits[k].ms] = <<2, 4, 8>>

\* the third attempt of withRetry has succeeded, after waits of 1 and 2 ms
C23_ThirdAttemptSucceeds ==
    /\ retryFn = "withRetry"
    /\ retryPc = "resolved"
    /\ retryResult = [t |-> "value", of |-> 3]
    /\ [k \in 1..Len(waits) |-> waits[k].ms] = <<1, 2>>

(***************************************************************************)
(* Properties of fetchWithTimeoutControl                                   *)
(***************************************************************************)
\* C24: the call settles exactly once: with the result of the request when
\* delay < timeoutMs, with the timeout error when timeoutMs < delay; the
\* timer that lost fires later and changes nothing.
C24_FirstTimerSettles ==
    /\ settlements <= 1
    /\ racePc = "settled" =>
         /\ settlements = 1
         /\ raceDelay < timeoutMs =>
              raceOutcome = [state |-> "fulfilled", of |-> "data"]
         /\ timeoutMs < raceDelay =>
              raceOutcome = [state |-> "rejected", of |-> "timeout"]
    /\ (racePc = "settled" /\ timers = {}) =>
         /\ requestPromise.state = "fulfilled"
         /\ timeoutPromise.state = "rejected"

(***************************************************************************)
(* Properties of weatherCache and loadWeatherForCity                       *)
(***************************************************************************)
\* the cache holds an entry for the city, stored within the last 30 minutes
Fresh(city) ==
    /\ ToLowerCase(city) \in DOMAIN weatherCache
    /\ now - weatherCache[ToLowerCase(city)].timestamp <= CacheTtl

\* C25: loadWeatherForCity(city, forceRefresh) calls the service exactly
\* when forceRefresh is true or the cache holds no entry for the city,
\* whatever its case, stored within the last 30 minutes, and otherwise
\* returns the cached data; weatherCache.get returns no entry older than 30
\* minutes and deletes it; a failed fetch leaves the cache as it was.
C25_CacheBeforeService ==
    [][/\ \A city \in Cities, forceRefresh \in BOOLEAN :
            loadWeatherForCity(city, forceRefresh) =>
                /\ lastLoad'.called <=> (forceRefresh \/ ~Fresh(city))
                /\ serviceCalls' =
                     serviceCalls + (IF lastLoad'.called THEN 1 ELSE 0)
                /\ ~lastLoad'.called =>
                     /\ lastLoad'.returned =
                          weatherCache[ToLowerCase(city)].data
                     /\ weatherCache' = weatherCache
       /\ \A city \in Cities :
            GetCall(city) =>
                /\ Fresh(city) =>
                     /\ lastLoad'.returned =
                          weatherCache[ToLowerCase(city)].data
                     /\ weatherCache' = weatherCache
                /\ ~Fresh(city) =>
                     /\ lastLoad'.returned = NoData
                     /\ ToLowerCase(city) \notin DOMAIN weatherCache'
       /\ FetchRejects => weatherCache' = weatherCache]_vars

\* "AB" was asked for and answered with the data fetched for "ab" exactly
\* 30 minutes before
C25_Witness ==
    /\ lastLoad.op = "load"
    /\ ~lastLoad.called
    /\ lastLoad.city = <<"A", "B">>
    /\ lastLoad.returned.city = <<"a", "b">>
    /\ now - weatherCache[<<"a", "b">>].timestamp = CacheTtl

\* an entry older than 30 minutes was asked for and is gone
C25_ExpiredEntryDeleted ==
    /\ lastLoad.op = "get"
    /\ lastLoad.returned = NoData
    /\ weatherCache = <<>>
    /\ serviceCalls = 1
    /\ inFlight = {}
    /\ now = CacheTtl + 1
====
